---- MODULE Spec2Model ----
(***************************************************************************)
(* A model of user_sync/rules.py: RuleProcessor.run and the callbacks it   *)
(* registers, the per-organization bookkeeping of OrganizationInfo, the    *)
(* drain loop of DashboardConnectors.execute_actions, and the user-key     *)
(* functions get_user_key / parse_user_key.                                *)
(*                                                                         *)
(* A run is single threaded.  The points where a completion callback can   *)
(* run are the calls into a connector: send_commands (the connector may    *)
(* complete queued commands before it returns) and flush.                  *)
(***************************************************************************)
EXTENDS Integers, Sequences, FiniteSets, TLC

(***************************************************************************)
(* The universe of a run.                                                  *)
(***************************************************************************)
\* OWNING_ORGANIZATION_NAME is None in the code; a string stands for it here.
OWNING_ORGANIZATION_NAME == "owning"

\* dashboard_connectors.accessor_connectors, in its iteration order
AccessorNames == <<"acc1", "acc2">>

Accessors == {AccessorNames[i] : i \in 1..Len(AccessorNames)}

Orgs == {OWNING_ORGANIZATION_NAME} \cup Accessors

\* DashboardConnectors.connectors: the owning connector, then the accessors
Connectors == <<OWNING_ORGANIZATION_NAME>> \o AccessorNames

\* A string that the code normalizes or splits is a sequence of characters.
\* names of target groups (TargetGroup is compared by group_name alone)
Groups == {<<"g", "1">>, <<"g", "2">>}

\* group names as a connector reports them, before normalize_string
RawGroups == {<<"G", "1">>, <<"g", "2">>}

ENTERPRISE_IDENTITY_TYPE == "enterpriseID"
FEDERATED_IDENTITY_TYPE == "federatedID"
ADOBEID_IDENTITY_TYPE == "adobeID"

\* User keys are "type,username,domain" strings; the run only compares them
\* and reads the type back, so a key is a name here and KeyType its type.
UserKeys == {"e1", "f1", "a1"}

KeyType(user_key) ==
    CASE user_key = "e1" -> ENTERPRISE_IDENTITY_TYPE
      [] user_key = "f1" -> FEDERATED_IDENTITY_TYPE
      [] OTHER -> ADOBEID_IDENTITY_TYPE

\* the order in which a connector's iter_users() yields the users it has
KeyOrder(user_key) ==
    CASE user_key = "e1" -> 1
      [] user_key = "f1" -> 2
      [] OTHER -> 3

\* options['managed_identity_types'], the default of the constructor
managed_identity_types == {ENTERPRISE_IDENTITY_TYPE, FEDERATED_IDENTITY_TYPE}

\* the attributes get_user_attributes compares
AttrNames == {"email", "firstname", "lastname"}

(***************************************************************************)
(* Bounds.                                                                 *)
(***************************************************************************)
\* The inputs of a run are its options, the users the directory connector
\* loads and the users the dashboard connectors yield.  The size of an input is
\* the number of options that differ from the constructor's defaults (and of
\* keys in remove_user_key_list; remove_nonexistent_users counts nothing), of
\* catalog groups beyond the base catalog, of directory users and of dashboard
\* users; an incomplete load of the directory counts one.
\* Every input up to this size is tried.
MaxInputSize == 2
\* largest value tried for max_missing_users and max_deletions_per_run
MaxLimit == 1
\* longest string tried as an argument of get_user_key
MaxStringLen == 2
\* most yields by which the streams of a run that repeat a user key may exceed
\* MaxInputSize
MaxRepeatedYields == 1

VARIABLES
    options,                        \* RuleProcessor.options
    index_map,                      \* DashboardGroup.index_map: {<<group, org>>}
    pc,                             \* position of run()
    directory_user_by_user_key,     \* the loaded directory users by key; of a user,
                                    \* whether it is in a group of directory_group_filter
    filtered_directory_user_by_user_key, \* keys of the selected ones
    remove_user_key_list,
    adding_dashboard_user_key,
    need_to_process_orphaned_dashboard_users,
    \* OrganizationInfo, one per organization
    mapped_groups,
    desired_groups_by_user_key,
    dashboard_user_by_user_key,
    dashboard_users_loaded,
    orphaned_dashboard_user_by_user_key,
    groups_added_by_user_key,
    groups_removed_by_user_key,
    \* locals of the running loops
    cur,                            \* index into Connectors of the loop at hand
    user_to_group_map,              \* the diff's copy of the desired map
    todo,                           \* keys the running for-loop has yet to visit
    total_waiting_by_user_key,      \* clean_dashboard_users
    ready_to_remove_from_org,       \* clean_dashboard_users
    had_work,                       \* execute_actions
    \* the connectors
    queue,                          \* per connector: commands not yet completed
    sent,                           \* every Commands handed to send_commands, in order
    in_connector,                   \* connectors entered since the last step of run()
    \* environment observed so far
    orphans_gathered,               \* process_orphaned_dashboard_users: whether it
                                    \* ran, the orphans it gathered, whether it wrote them
    error,                          \* the exception that ended the run, or "none"
    input_size,                     \* the size of the input read so far
    directory_connector,            \* run()'s argument: TRUE unless it is None
    blank_country_user_keys,        \* directory users read to have no country
    failed_create_user_keys,        \* users whose create command did not succeed
    drain_passes,                   \* execute_actions: passes of its loop that found work
    all_users_loaded,               \* what the directory connector answered
    dashboard_user_attributes,      \* per organization: the attributes of the
                                    \* dashboard users by key, as the connector gave them
    \* the user-key functions, called on their own
    key_pc,                         \* which of them has been called
    key_args,                       \* the arguments of get_user_key
    derived_user_key,               \* what get_user_key returned
    parsed_user_key                 \* what parse_user_key returned

orgvars == <<mapped_groups, desired_groups_by_user_key, dashboard_user_by_user_key,
             dashboard_users_loaded, orphaned_dashboard_user_by_user_key,
             groups_added_by_user_key, groups_removed_by_user_key>>

inputvars == <<options, index_map, directory_connector, directory_user_by_user_key,
               filtered_directory_user_by_user_key, input_size>>

loopvars == <<cur, user_to_group_map, todo>>

cleanvars == <<total_waiting_by_user_key, ready_to_remove_from_org>>

keyvars == <<key_pc, key_args, derived_user_key, parsed_user_key>>

vars == <<options, index_map, pc, directory_user_by_user_key,
          filtered_directory_user_by_user_key, remove_user_key_list,
          adding_dashboard_user_key, need_to_process_orphaned_dashboard_users,
          mapped_groups, desired_groups_by_user_key, dashboard_user_by_user_key,
          dashboard_users_loaded, orphaned_dashboard_user_by_user_key,
          groups_added_by_user_key, groups_removed_by_user_key,
          cur, user_to_group_map, todo, total_waiting_by_user_key,
          ready_to_remove_from_org, had_work, queue, sent, in_connector,
          orphans_gathered, error, directory_connector, input_size,
          blank_country_user_keys, failed_create_user_keys, drain_passes,
          all_users_loaded, dashboard_user_attributes,
          key_pc, key_args, derived_user_key, parsed_user_key>>

(***************************************************************************)
(* Small helpers.                                                          *)
(***************************************************************************)
Range(s) == {s[i] : i \in 1..Len(s)}

Min(a, b) == IF a <= b THEN a ELSE b

\* dict.get(key) for a dict of sets, None read as the empty set
Get(d, k) == IF k \in DOMAIN d THEN d[k] ELSE {}

\* d[k] = v
Put(d, k, v) == [x \in DOMAIN d \cup {k} |-> IF x = k THEN v ELSE d[x]]

\* d.pop(k, None), the dict that is left
Pop(d, k) == [x \in DOMAIN d \ {k} |-> d[x]]

EmptyDict == [x \in {} |-> {}]

(***************************************************************************)
(* Functions of the module and of user_sync.helper.                        *)
(***************************************************************************)
\* str.lower() on one character
lower(c) == CASE c = "A" -> "a" [] c = "G" -> "g" [] OTHER -> c

\* str.strip()
RECURSIVE strip(_)
strip(string_value) ==
    IF string_value = <<>> THEN string_value
    ELSE IF Head(string_value) = " " THEN strip(Tail(string_value))
    ELSE IF string_value[Len(string_value)] = " "
    THEN strip(SubSeq(string_value, 1, Len(string_value) - 1))
    ELSE string_value

\* user_sync.helper.normalize_string: strip and lower-case.  None is read as
\* the empty string: the callers test the result for truth only.
normalize_string(string_value) ==
    [i \in 1..Len(strip(string_value)) |-> lower(strip(string_value)[i])]

normalize_groups(group_names) == {normalize_string(n) : n \in group_names}

\* filter_target_groups_by_names without the filter
filter_target_groups_by_names_unfiltered(target_groups, target_group_names) ==
    target_group_names

filter_target_groups_by_names(target_groups, target_group_names) ==
    {g \in target_groups : g \in target_group_names}

\* get_new_groups without the subtraction of the registered groups
get_new_groups_unfiltered(current_groups_by_user_key, user_key, desired_groups) ==
    desired_groups

\* get_new_groups: the groups of desired_groups not yet registered for the user
get_new_groups(current_groups_by_user_key, user_key, desired_groups) ==
    desired_groups \ Get(current_groups_by_user_key, user_key)

\* get_new_groups without the registration of the new groups
register_new_groups_skipped(current_groups_by_user_key, user_key, desired_groups) ==
    current_groups_by_user_key

\* get_new_groups: the dictionary after the new groups were registered
register_new_groups(current_groups_by_user_key, user_key, desired_groups) ==
    IF get_new_groups(current_groups_by_user_key, user_key, desired_groups) = {}
    THEN current_groups_by_user_key
    ELSE Put(current_groups_by_user_key, user_key,
             Get(current_groups_by_user_key, user_key) \cup desired_groups)

is_selected_user_key(user_key) == user_key \notin options.username_filter_rejects

\* get_user_attribute_difference: the attributes whose directory value differs
\* from the dashboard value, each with the directory value
get_user_attribute_difference(directory_attrs, dashboard_attrs) ==
    {<<a, directory_attrs[a]>> : a \in {k \in AttrNames : directory_attrs[k] # dashboard_attrs[k]}}

\* the attribute values of every directory user
DirectoryAttrs == [a \in AttrNames |-> "dir"]

\* attribute values a connector may report for a user
TargetAttrChoices ==
    {[a \in AttrNames |-> "dir"],
     [a \in AttrNames |-> IF a = "email" THEN "old" ELSE "dir"],
     [a \in AttrNames |-> IF a = "email" THEN "dir" ELSE "old"]}

(***************************************************************************)
(* The user-key functions.                                                 *)
(***************************************************************************)
\* the characters of the strings tried
KeyChars == {"A", "@", ",", " "}

\* the strings tried as username, domain and email
Strings == UNION {[1..n -> KeyChars] : n \in 0..MaxStringLen}

\* the values tried as id_type
IdentityTypeInputs == {"ENTERPRISEID", "federatedID", "None", "bogus"}

\* user_sync.identity_type.parse_identity_type: the canonical name of a type
\* given in any case, None (the empty string here) for None.  A type name is
\* one character of the key: it holds no separator.
parse_identity_type(id_type) ==
    CASE id_type = "ENTERPRISEID" -> <<ENTERPRISE_IDENTITY_TYPE>>
      [] id_type = "federatedID" -> <<FEDERATED_IDENTITY_TYPE>>
      [] OTHER -> <<>>

\* parse_identity_type raises AssertionException for a name it does not know
parse_identity_type_raises(id_type) ==
    id_type \notin {"ENTERPRISEID", "federatedID", "None"}

\* get_user_key: the key, None (the empty string here) if there is none
get_user_key(username, domain, email, id_type) ==
    LET parsed_id_type == parse_identity_type(id_type)
        normalized_email == normalize_string(email)
        normalized_username ==
            IF normalize_string(username) # <<>> THEN normalize_string(username)
            ELSE normalized_email
        normalized_domain == normalize_string(domain)
    IN  IF parsed_id_type = <<>> THEN <<>>
        ELSE IF normalized_username = <<>> THEN <<>>
        ELSE IF "@" \in Range(normalized_username)
        THEN parsed_id_type \o <<",">> \o normalized_username \o <<",">>
        ELSE IF normalized_domain = <<>> THEN <<>>
        ELSE parsed_id_type \o <<",">> \o normalized_username \o <<",">>
                \o normalized_domain

\* str.split(separator)
RECURSIVE split(_, _)
split(string_value, separator) ==
    IF \A i \in 1..Len(string_value) : string_value[i] # separator
    THEN <<string_value>>
    ELSE LET i == CHOOSE j \in 1..Len(string_value) :
                    /\ string_value[j] = separator
                    /\ \A k \in 1..(j - 1) : string_value[k] # separator
         IN  <<SubSeq(string_value, 1, i - 1)>>
                \o split(SubSeq(string_value, i + 1, Len(string_value)), separator)

parse_user_key(user_key) == split(user_key, ",")

InitKeys ==
    /\ key_pc = "idle"
    /\ key_args = [username |-> <<>>, domain |-> <<>>, email |-> <<>>, id_type |-> "None"]
    /\ derived_user_key = <<>>
    /\ parsed_user_key = <<>>

(***************************************************************************)
(* Commands and connectors.                                                *)
(***************************************************************************)
DESIGNATION_PRODUCT == "productconfiguration"
DESIGNATION_GROUP == "usergroup"

\* umapi_client.GroupTypes
GroupTypes == [usergroup |-> "usergroup", product |-> "product"]

\* DashboardGroup.designation of the catalog entry of a group in an
\* organization, which create_target_group_from_config_group hands on to the
\* TargetGroup: in the catalogs tried the groups of the owning organization
\* are user groups and those of the accessors product configurations
Designation(org, group) ==
    IF org = OWNING_ORGANIZATION_NAME THEN DESIGNATION_GROUP ELSE DESIGNATION_PRODUCT

filter_target_groups_by_designation(org, target_groups, target_group_designation) ==
    {g \in target_groups : Designation(org, g) = target_group_designation}

\* RuleProcessor.add_groups: the calls of commands.add_groups it makes, each
\* with the names of the groups and the group type
add_groups(org, target_groups) ==
    {<<filter_target_groups_by_designation(org, target_groups, DESIGNATION_GROUP),
       GroupTypes.usergroup>>,
     <<filter_target_groups_by_designation(org, target_groups, DESIGNATION_PRODUCT),
       GroupTypes.product>>}

\* RuleProcessor.remove_groups: the calls of commands.remove_groups it makes
remove_groups(org, target_groups) ==
    {<<filter_target_groups_by_designation(org, target_groups, DESIGNATION_GROUP),
       GroupTypes.usergroup>>,
     <<filter_target_groups_by_designation(org, target_groups, DESIGNATION_PRODUCT),
       GroupTypes.product>>}

\* a Commands object for a user of an organization, with nothing to do yet.
\* add and remove are the groups the command is to add and to remove,
\* add_calls and remove_calls the calls of commands.add_groups and
\* commands.remove_groups that put them there.
NoCommands(org, user_key) ==
    [org |-> org, user |-> user_key, create |-> FALSE, country |-> "",
     update |-> {}, add |-> {}, remove |-> {}, remove_from_org |-> FALSE,
     add_calls |-> {}, remove_calls |-> {}]

\* connector.send_commands(commands, callback)
Sent(log, commands) == Append(log, commands)

Queued(q, commands, callback) ==
    [q EXCEPT ![commands.org] =
        Append(@, [user |-> commands.user, callback |-> callback])]

(***************************************************************************)
(* Construction.                                                           *)
(***************************************************************************)
\* the group catalogs tried: DashboardGroup.index_map after configuration.  g1
\* is mapped into the owning organization and into acc1, g2 into no
\* organization; acc2 is an accessor with no mapped group, or with g1.
BaseCatalog ==
    {<<(<<"g", "1">>), OWNING_ORGANIZATION_NAME>>, <<(<<"g", "1">>), "acc1">>}

CatalogChoices == {BaseCatalog, BaseCatalog \cup {<<(<<"g", "1">>), "acc2">>}}

\* the size of a catalog: the groups it has beyond the base catalog
CatalogSize(catalog) == Cardinality(catalog \ BaseCatalog)

\* the values of options['remove_user_key_list'] tried
InputRemoveLists == {{}, {"e1"}, {"a1"}, {"e1", "f1"}}

\* the users options['username_filter_regex'] rejects, for the filters tried
InputUsernameFilters == {{}, {"f1"}}

\* the caller_options tried.  An option that a later step of the run is the
\* first to read is drawn by that step (the run never writes an option):
\* default_country_code when the creation loop starts, the two limits when
\* process_orphaned_dashboard_users reads them.
OptionChoices ==
    {o \in [manage_groups : BOOLEAN,
            update_user_info : BOOLEAN,
            remove_user_key_list : InputRemoveLists,
            remove_list_output_path : BOOLEAN,
            remove_nonexistent_users : BOOLEAN,
            delete_list_output_path : BOOLEAN,
            delete_nonexistent_users : {FALSE},
            default_country_code : {FALSE},
            max_deletions_per_run : {0},
            max_missing_users : {0},
            username_filter_rejects : InputUsernameFilters] : TRUE}

\* the size of the options
OptionSize(o) ==
    (IF o.manage_groups THEN 0 ELSE 1) + (IF o.update_user_info THEN 0 ELSE 1)
    + (IF o.remove_list_output_path THEN 1 ELSE 0)
    + (IF o.delete_list_output_path THEN 1 ELSE 0)
    + (IF o.delete_nonexistent_users THEN 1 ELSE 0)
    + Cardinality(o.remove_user_key_list) + Cardinality(o.username_filter_rejects)

\* RuleProcessor.__init__
Init ==
    /\ options \in OptionChoices
    /\ index_map \in CatalogChoices
    /\ directory_connector \in BOOLEAN
    /\ input_size = OptionSize(options) + CatalogSize(index_map)
    /\ input_size <= MaxInputSize
    /\ pc = "start"
    /\ InitKeys
    /\ directory_user_by_user_key = EmptyDict
    /\ filtered_directory_user_by_user_key = {}
    /\ remove_user_key_list = options.remove_user_key_list
    /\ adding_dashboard_user_key = {}
    /\ need_to_process_orphaned_dashboard_users =
            ((options.remove_list_output_path \/ options.remove_nonexistent_users)
             \/ (options.delete_list_output_path \/ options.delete_nonexistent_users))
    /\ mapped_groups = [o \in Orgs |-> {}]
    /\ desired_groups_by_user_key = [o \in Orgs |-> EmptyDict]
    /\ dashboard_user_by_user_key = [o \in Orgs |-> EmptyDict]
    /\ dashboard_users_loaded = [o \in Orgs |-> FALSE]
    /\ orphaned_dashboard_user_by_user_key = [o \in Orgs |-> {}]
    /\ groups_added_by_user_key = [o \in Orgs |-> EmptyDict]
    /\ groups_removed_by_user_key = [o \in Orgs |-> EmptyDict]
    /\ cur = 1
    /\ user_to_group_map = EmptyDict
    /\ todo = {}
    /\ total_waiting_by_user_key = EmptyDict
    /\ ready_to_remove_from_org = FALSE
    /\ had_work = FALSE
    /\ queue = [o \in Orgs |-> <<>>]
    /\ sent = <<>>
    /\ in_connector = {}
    /\ orphans_gathered = [processed |-> FALSE, users |-> {}, enqueued |-> {},
                           written |-> FALSE]
    /\ error = "none"
    /\ blank_country_user_keys = {}
    /\ failed_create_user_keys = {}
    /\ drain_passes = 0
    /\ all_users_loaded = TRUE
    /\ dashboard_user_attributes = [o \in Orgs |-> EmptyDict]

need_to_process_remove_users ==
    options.remove_list_output_path \/ options.remove_nonexistent_users

need_to_process_delete_users ==
    options.delete_list_output_path \/ options.delete_nonexistent_users

will_manage_groups == options.manage_groups

(***************************************************************************)
(* run(): prepare_organization_infos and read_desired_user_groups.         *)
(***************************************************************************)
\* prepare_organization_infos: every catalog group is mapped into its organization
prepare_organization_infos == [o \in Orgs |-> {gq[1] : gq \in {x \in index_map : x[2] = o}}]

\* a qualified name that the after-mapping hook may add to target_groups and
\* that no catalog holds
UnknownTargetGroup == <<(<<"g", "9">>), OWNING_ORGANIZATION_NAME>>

\* DashboardGroup.lookup: the catalog group of a qualified name, as a set that
\* is empty for None
lookup(target_group_qualified_name) == {target_group_qualified_name} \cap index_map

\* read_desired_user_groups with the user's target groups dropped when one of
\* the names is not known
known_target_groups_or_none(target_group_qualified_names) ==
    IF \A n \in target_group_qualified_names : lookup(n) # {}
    THEN target_group_qualified_names ELSE {}

\* read_desired_user_groups: the catalog groups of the names the hook scope
\* holds; a name that is not known is logged and ignored
known_target_groups(target_group_qualified_names) ==
    UNION {lookup(n) : n \in target_group_qualified_names}

\* read_desired_user_groups: the desired map of one organization, given the
\* selected users and the qualified names in target_groups for each
read_desired_user_groups(org, selected, target_groups) ==
    [u \in {k \in selected : org = OWNING_ORGANIZATION_NAME
                               \/ \E gq \in known_target_groups(target_groups[k]) : gq[2] = org}
        |-> {gq[1] : gq \in {x \in known_target_groups(target_groups[u]) : x[2] = org}}]

\* read_desired_user_groups without the test of the removal list
is_selected_directory_user_listed(user_key, in_groups) ==
    in_groups /\ is_selected_user_key(user_key)

\* read_desired_user_groups: the directory user is selected
is_selected_directory_user(user_key, in_groups) ==
    /\ in_groups
    /\ is_selected_user_key(user_key)
    /\ user_key \notin remove_user_key_list

\* read_desired_user_groups with the directory's answer ignored
need_to_process_orphans_whatever_loaded(all_loaded) ==
    need_to_process_orphaned_dashboard_users

\* read_desired_user_groups: "if not all_loaded: ... = False"
need_to_process_orphans_after_load(all_loaded) ==
    need_to_process_orphaned_dashboard_users /\ all_loaded

\* run(): where it goes on with the removal list given.  clean_dashboard_users
\* returns at once if the list is empty, and execute_actions is next.
clean_pc(user_keys) == IF user_keys = {} THEN "drain" ELSE "clean"

\* run() without a directory connector: nothing is synced, only cleaned
RunWithoutDirectory ==
    /\ pc = "start"
    /\ ~directory_connector
    /\ mapped_groups' = prepare_organization_infos
    /\ pc' = clean_pc(remove_user_key_list)
    /\ in_connector' = {}
    /\ UNCHANGED <<inputvars, remove_user_key_list, adding_dashboard_user_key,
                   need_to_process_orphaned_dashboard_users,
                   desired_groups_by_user_key, dashboard_user_by_user_key,
                   dashboard_users_loaded, orphaned_dashboard_user_by_user_key,
                   groups_added_by_user_key, groups_removed_by_user_key,
                   loopvars, cleanvars, had_work, queue, sent, orphans_gathered, error>>
    /\ UNCHANGED <<blank_country_user_keys, failed_create_user_keys, keyvars, drain_passes, all_users_loaded, dashboard_user_attributes>>

\* run() with a directory connector, up to the call of process_dashboard_users.
\* The directory connector's answer is the input: the users it loaded, for each
\* whether it is in a group of directory_group_filter and which catalog groups
\* its directory groups map to, and whether all users were loaded.
RunLoadDirectory ==
    /\ pc = "start"
    /\ directory_connector
    /\ \E loaded \in SUBSET UserKeys, all_loaded \in BOOLEAN :
        /\ input_size + Cardinality(loaded) + (IF all_loaded THEN 0 ELSE 1) <= MaxInputSize
        /\ ~need_to_process_orphaned_dashboard_users => all_loaded
        /\ all_users_loaded' = all_loaded
        /\ need_to_process_orphaned_dashboard_users' =
                need_to_process_orphans_after_load(all_loaded)
        /\ \E in_groups \in [loaded -> BOOLEAN] :
            LET selected == {u \in loaded : is_selected_directory_user(u, in_groups[u])}
            IN  \* what the run does not read is pinned: the filter of a user
                \* left out for another reason, the groups of a user left out
                /\ \A u \in loaded :
                        (u \in remove_user_key_list \/ ~is_selected_user_key(u)) => in_groups[u]
                /\ \E mapped \in [selected -> SUBSET index_map], unknown \in SUBSET selected :
                    \* target_groups of the hook scope: the groups the directory
                    \* groups map to, and what the hook's code added
                    LET target_groups == [u \in loaded |->
                            IF u \in selected
                            THEN mapped[u] \cup (IF u \in unknown THEN {UnknownTargetGroup}
                                                 ELSE {})
                            ELSE {}]
                    IN  /\ input_size' = input_size + Cardinality(loaded)
                                            + (IF all_loaded THEN 0 ELSE 1)
                                            + Cardinality(unknown)
                        /\ input_size' <= MaxInputSize
                        /\ directory_user_by_user_key' =
                                [u \in loaded |-> [in_groups |-> in_groups[u],
                                                   target_groups |-> target_groups[u]]]
                        /\ filtered_directory_user_by_user_key' = selected
                        /\ desired_groups_by_user_key' =
                                [o \in Orgs |-> read_desired_user_groups(o, selected, target_groups)]
                        /\ user_to_group_map' =
                                read_desired_user_groups(OWNING_ORGANIZATION_NAME, selected,
                                                         target_groups)
    /\ mapped_groups' = prepare_organization_infos
    /\ pc' = "owning_diff"
    /\ cur' = 1
    /\ in_connector' = {}
    /\ UNCHANGED <<options, index_map, directory_connector, remove_user_key_list,
                   adding_dashboard_user_key, dashboard_user_by_user_key,
                   dashboard_users_loaded, orphaned_dashboard_user_by_user_key,
                   groups_added_by_user_key, groups_removed_by_user_key,
                   todo, cleanvars, had_work, queue, sent, orphans_gathered, error>>
    /\ UNCHANGED <<blank_country_user_keys, failed_create_user_keys, keyvars, drain_passes,
                   dashboard_user_attributes>>

(***************************************************************************)
(* update_dashboard_user and try_and_update_dashboard_user.                *)
(***************************************************************************)
\* update_dashboard_user: the Commands it builds.  attributes_to_update is
\* given as has_attributes (FALSE for None) and the attribute names.
update_dashboard_user(org, user_key, attributes_to_update, groups_to_add, groups_to_remove) ==
    [NoCommands(org, user_key) EXCEPT
        !.update = IF KeyType(user_key) # ADOBEID_IDENTITY_TYPE
                   THEN attributes_to_update ELSE {},
        !.add = groups_to_add,
        !.remove = groups_to_remove,
        !.add_calls = IF groups_to_add # {} THEN add_groups(org, groups_to_add) ELSE {},
        !.remove_calls = IF groups_to_remove # {}
                         THEN remove_groups(org, groups_to_remove) ELSE {}]

\* update_dashboard_user: len(attributes_to_update) of None raises TypeError
update_dashboard_user_raises(user_key, has_attributes) ==
    KeyType(user_key) = ADOBEID_IDENTITY_TYPE /\ ~has_attributes

\* try_and_update_dashboard_user without the test of adding_dashboard_user_key
delays_user_update_never(user_key) == FALSE

\* try_and_update_dashboard_user: the update is not sent while the user is
\* being added
delays_user_update(user_key) == user_key \in adding_dashboard_user_key

\* try_and_update_dashboard_user, as the part of a step of run() that calls it.
\* It sets the idempotence sets, the connector, and error.
try_and_update_dashboard_user(org, user_key, has_attributes, attributes_to_update, groups_to_add, groups_to_remove) ==
    LET new_add == get_new_groups(groups_added_by_user_key[org], user_key, groups_to_add)
        new_remove == get_new_groups(groups_removed_by_user_key[org], user_key, groups_to_remove)
        commands == update_dashboard_user(org, user_key, attributes_to_update,
                                          new_add, new_remove)
    IN  /\ groups_added_by_user_key' = [groups_added_by_user_key EXCEPT
                ![org] = register_new_groups(@, user_key, groups_to_add)]
        /\ groups_removed_by_user_key' = [groups_removed_by_user_key EXCEPT
                ![org] = register_new_groups(@, user_key, groups_to_remove)]
        /\ IF delays_user_update(user_key)
           THEN \* "Delay user update"
                /\ UNCHANGED <<sent, queue, error>>
                /\ in_connector' = {}
           ELSE IF update_dashboard_user_raises(user_key, has_attributes)
           THEN /\ error' = "TypeError"
                /\ in_connector' = {}
                /\ UNCHANGED <<sent, queue>>
           ELSE /\ sent' = Sent(sent, commands)
                /\ queue' = Queued(queue, commands, "none")
                /\ in_connector' = {org}
                /\ UNCHANGED error

(***************************************************************************)
(* process_dashboard_users.                                                *)
(***************************************************************************)
\* the groups the diff asks to remove from a user with no selected directory user
orphan_groups_to_remove(org, dashboard_user_groups) ==
    IF will_manage_groups
    THEN filter_target_groups_by_names(mapped_groups[org],
                                       normalize_groups(dashboard_user_groups))
    ELSE {}

\* the groups the diff asks to add to a user matching a selected directory user
matched_groups_to_add(desired_groups, current_groups) ==
    IF will_manage_groups THEN desired_groups \ current_groups ELSE {}

\* the groups the diff asks to remove from such a user
matched_groups_to_remove(org, desired_groups, current_groups) ==
    IF will_manage_groups
    THEN (current_groups \ desired_groups) \cap mapped_groups[org]
    ELSE {}

\* desired_groups is a set of TargetGroup and current_groups a set of names.
\* A set operation on the two compares a group and a name that have the same
\* hash, the group's name being the name, with TargetGroup.__eq__, which reads
\* group_name of the name and raises AttributeError.
\* desired_groups - current_groups raises
matched_groups_to_add_raises(desired_groups, current_groups) ==
    will_manage_groups /\ desired_groups \cap current_groups # {}

\* the intersection computed by name, with no comparison that raises
matched_groups_to_remove_raises_never(org, desired_groups, current_groups) == FALSE

\* (current_groups - desired_groups) & mapped_groups raises
matched_groups_to_remove_raises(org, desired_groups, current_groups) ==
    will_manage_groups /\ (current_groups \ desired_groups) \cap mapped_groups[org] # {}

\* the attribute differences of the diff, computed for every organization
matched_attribute_differences_any_organization(org, dashboard_attrs) ==
    IF options.update_user_info
    THEN get_user_attribute_difference(DirectoryAttrs, dashboard_attrs)
    ELSE {}

\* the attribute differences the diff asks to update
matched_attribute_differences(org, dashboard_attrs) ==
    IF options.update_user_info /\ org = OWNING_ORGANIZATION_NAME
    THEN get_user_attribute_difference(DirectoryAttrs, dashboard_attrs)
    ELSE {}

\* the index of the first connector from index i on that has mapped groups,
\* Len(Connectors) + 1 if there is none: the loops over the accessor
\* connectors skip an accessor with no mapped group
next_mapped(i) ==
    IF \E j \in i..Len(Connectors) : mapped_groups[Connectors[j]] # {}
    THEN CHOOSE j \in i..Len(Connectors) :
            /\ mapped_groups[Connectors[j]] # {}
            /\ \A k \in i..(j - 1) : mapped_groups[Connectors[k]] = {}
    ELSE Len(Connectors) + 1

\* run(): where it goes on after process_dashboard_users
after_process_dashboard_users_pc ==
    IF need_to_process_orphaned_dashboard_users THEN "orphans"
    ELSE clean_pc(remove_user_key_list)

\* process_dashboard_users: the head of the loop over the accessor connectors,
\* reached with the connectors before index i done: where the run goes on, at
\* which connector, and with which copy of a desired map.  The loop is left
\* after the last connector.
accessor_loop_pc(i) ==
    IF next_mapped(i) > Len(Connectors) THEN after_process_dashboard_users_pc
    ELSE "accessor_diff"

accessor_loop_cur(i) ==
    IF next_mapped(i) > Len(Connectors) THEN 1 ELSE next_mapped(i)

accessor_loop_map(i) ==
    IF next_mapped(i) > Len(Connectors) THEN EmptyDict
    ELSE desired_groups_by_user_key[Connectors[next_mapped(i)]]

\* the diff with no user ignored for its identity type
is_unmanaged_dashboard_user_never(user_key) == FALSE

\* update_dashboard_users_for_connector: "ignore users whose identity type we
\* are not managing"
is_unmanaged_dashboard_user(user_key) == KeyType(user_key) \notin managed_identity_types

\* update_dashboard_users_for_connector: one turn of the loop over
\* dashboard_connector.iter_users().  The user the connector yields is the input.
DiffStep ==
    /\ pc \in {"owning_diff", "accessor_diff"}
    /\ LET org == Connectors[cur] IN
       \E user_key \in UserKeys, groups \in SUBSET RawGroups, attrs \in TargetAttrChoices :
        LET current_groups == normalize_groups(groups)
            desired_groups == Get(user_to_group_map, user_key)
            matched == user_key \in filtered_directory_user_by_user_key
            \* the stream yields a key it has yielded before
            repeated == user_key \in DOMAIN dashboard_user_by_user_key[org]
        IN  \* a repeated yield is tried for the key yielded last, of a user
            \* matching a selected directory user, whose entry of the desired
            \* map the first yield has popped; it gives the attributes the
            \* first yield gave, and any groups
            /\ IF repeated
               THEN /\ matched
                    /\ input_size < MaxInputSize + MaxRepeatedYields
                    /\ attrs = dashboard_user_attributes[org][user_key]
               ELSE input_size < MaxInputSize
            /\ input_size' = input_size + 1
            /\ \A k \in DOMAIN dashboard_user_by_user_key[org] \ {user_key} :
                    KeyOrder(k) < KeyOrder(user_key)
            \* the attributes are read only to compare them in the owning diff,
            \* and the differences are used only if the diff goes on
            /\ (/\ ~repeated
                /\ \/ ~matched
                   \/ matched_attribute_differences(org, attrs) = {}
                   \/ KeyType(user_key) \notin managed_identity_types
                   \/ matched_groups_to_add_raises(desired_groups, current_groups)
                   \/ matched_groups_to_remove_raises(org, desired_groups, current_groups))
                    => attrs = DirectoryAttrs
            /\ dashboard_user_by_user_key' = [dashboard_user_by_user_key EXCEPT
                    ![org] = Put(@, user_key, groups)]
            /\ dashboard_user_attributes' = [dashboard_user_attributes EXCEPT
                    ![org] = Put(@, user_key, attrs)]
            /\ user_to_group_map' = Pop(user_to_group_map, user_key)
            /\ IF is_unmanaged_dashboard_user(user_key)
               THEN \* "Ignoring unmanaged dashboard user"
                    /\ in_connector' = {}
                    /\ UNCHANGED <<orphaned_dashboard_user_by_user_key,
                                   groups_added_by_user_key, groups_removed_by_user_key,
                                   sent, queue, error>>
               ELSE IF ~matched
               THEN /\ orphaned_dashboard_user_by_user_key' =
                        [orphaned_dashboard_user_by_user_key EXCEPT ![org] = @ \cup {user_key}]
                    /\ try_and_update_dashboard_user(org, user_key, TRUE, {}, {},
                            orphan_groups_to_remove(org, groups))
               ELSE IF \/ matched_groups_to_add_raises(desired_groups, current_groups)
                       \/ matched_groups_to_remove_raises(org, desired_groups, current_groups)
               THEN /\ error' = "AttributeError"
                    /\ in_connector' = {}
                    /\ UNCHANGED <<orphaned_dashboard_user_by_user_key,
                                   groups_added_by_user_key, groups_removed_by_user_key,
                                   sent, queue>>
               ELSE /\ UNCHANGED orphaned_dashboard_user_by_user_key
                    /\ try_and_update_dashboard_user(org, user_key, TRUE,
                            matched_attribute_differences(org, attrs),
                            matched_groups_to_add(desired_groups, current_groups),
                            matched_groups_to_remove(org, desired_groups, current_groups))
    /\ pc' = IF error' # "none" THEN "failed" ELSE pc
    /\ UNCHANGED <<options, index_map, directory_connector, directory_user_by_user_key,
                   filtered_directory_user_by_user_key,
                   remove_user_key_list, adding_dashboard_user_key,
                   need_to_process_orphaned_dashboard_users, mapped_groups,
                   desired_groups_by_user_key, dashboard_users_loaded,
                   cur, todo, cleanvars, had_work, orphans_gathered>>
    /\ UNCHANGED <<blank_country_user_keys, failed_create_user_keys, keyvars, drain_passes, all_users_loaded>>

\* update_dashboard_users_for_connector: the stream ends; the caller takes the
\* map of the unmatched users
DiffEnd ==
    /\ pc \in {"owning_diff", "accessor_diff"}
    /\ dashboard_users_loaded' = [dashboard_users_loaded EXCEPT ![Connectors[cur]] = TRUE]
    /\ IF pc = "owning_diff"
       THEN /\ todo' = DOMAIN user_to_group_map
            /\ pc' = IF todo' = {} THEN accessor_loop_pc(2) ELSE "create"
            /\ cur' = IF todo' = {} THEN accessor_loop_cur(2) ELSE cur
            /\ user_to_group_map' =
                    IF todo' = {} THEN accessor_loop_map(2) ELSE user_to_group_map
            /\ \E default_country_code \in BOOLEAN :
                /\ todo' = {} => ~default_country_code
                /\ options' = [options EXCEPT !.default_country_code = default_country_code]
       ELSE /\ todo' = IF will_manage_groups THEN DOMAIN user_to_group_map ELSE {}
            /\ pc' = IF todo' = {} THEN accessor_loop_pc(cur + 1)
                     ELSE "accessor_unprocessed"
            /\ cur' = IF todo' = {} THEN accessor_loop_cur(cur + 1) ELSE cur
            /\ user_to_group_map' =
                    IF todo' = {} THEN accessor_loop_map(cur + 1) ELSE user_to_group_map
            /\ UNCHANGED options
    /\ in_connector' = {}
    /\ UNCHANGED <<index_map, directory_connector, directory_user_by_user_key,
                   filtered_directory_user_by_user_key, input_size, remove_user_key_list, adding_dashboard_user_key,
                   need_to_process_orphaned_dashboard_users, mapped_groups,
                   desired_groups_by_user_key, dashboard_user_by_user_key,
                   orphaned_dashboard_user_by_user_key, groups_added_by_user_key,
                   groups_removed_by_user_key, cleanvars,
                   had_work, queue, sent, orphans_gathered, error>>
    /\ UNCHANGED <<blank_country_user_keys, failed_create_user_keys, keyvars, drain_passes, all_users_loaded, dashboard_user_attributes>>

\* add_dashboard_user with UD for an enterprise user before the default
create_country_undefined_first(user_key, country_blank) ==
    IF ~country_blank THEN "directory"
    ELSE IF KeyType(user_key) = ENTERPRISE_IDENTITY_TYPE THEN "UD"
    ELSE IF options.default_country_code THEN "default"
    ELSE ""

\* add_dashboard_user: the country the create command carries, "" if the user
\* cannot be added.  country_blank: directory_user['country'] is empty.
create_country(user_key, country_blank) ==
    IF ~country_blank THEN "directory"
    ELSE IF options.default_country_code THEN "default"
    ELSE IF KeyType(user_key) = ENTERPRISE_IDENTITY_TYPE THEN "UD"
    ELSE ""

\* add_dashboard_user without the country UD for an enterprise user
will_add_dashboard_user_no_undefined(user_key, country_blank) ==
    /\ KeyType(user_key) \in managed_identity_types
    /\ ~country_blank \/ options.default_country_code

\* add_dashboard_user that sends no create command
will_add_dashboard_user_never(user_key, country_blank) == FALSE

\* add_dashboard_user: whether the create command is sent at all
will_add_dashboard_user(user_key, country_blank) ==
    /\ KeyType(user_key) \in managed_identity_types
    /\ create_country(user_key, country_blank) # ""

\* add_dashboard_user without the test of manage_groups
create_groups_unconditional(user_key) ==
    get_new_groups(groups_added_by_user_key[OWNING_ORGANIZATION_NAME], user_key,
                   Get(desired_groups_by_user_key[OWNING_ORGANIZATION_NAME], user_key))

\* add_dashboard_user: the groups the create command carries
create_groups(user_key) ==
    IF will_manage_groups
    THEN get_new_groups(groups_added_by_user_key[OWNING_ORGANIZATION_NAME], user_key,
                        Get(desired_groups_by_user_key[OWNING_ORGANIZATION_NAME], user_key))
    ELSE {}

\* add_dashboard_user: the calls of commands.add_groups for the create command
create_add_groups(user_key) ==
    IF will_manage_groups
    THEN add_groups(OWNING_ORGANIZATION_NAME, create_groups(user_key))
    ELSE {}

\* process_dashboard_users: one turn of the loop over the unmatched owning
\* users, a call of add_dashboard_user.  The directory user's country is the input.
AddDashboardUser ==
    /\ pc = "create"
    /\ \E user_key \in todo, country_blank \in BOOLEAN :
        LET commands == [NoCommands(OWNING_ORGANIZATION_NAME, user_key) EXCEPT
                            !.create = TRUE,
                            !.country = create_country(user_key, country_blank),
                            !.add = create_groups(user_key),
                            !.add_calls = create_add_groups(user_key)]
        IN  /\ todo' = todo \ {user_key}
            \* the country is not read for a user of an unmanaged type
            /\ KeyType(user_key) \notin managed_identity_types => ~country_blank
            /\ blank_country_user_keys' =
                    IF country_blank THEN blank_country_user_keys \cup {user_key}
                    ELSE blank_country_user_keys
            /\ IF will_add_dashboard_user(user_key, country_blank)
               THEN /\ groups_added_by_user_key' =
                        IF will_manage_groups
                        THEN [groups_added_by_user_key EXCEPT ![OWNING_ORGANIZATION_NAME] =
                                register_new_groups(@, user_key,
                                    Get(desired_groups_by_user_key[OWNING_ORGANIZATION_NAME],
                                        user_key))]
                        ELSE groups_added_by_user_key
                    /\ adding_dashboard_user_key' = adding_dashboard_user_key \cup {user_key}
                    /\ sent' = Sent(sent, commands)
                    /\ queue' = Queued(queue, commands, "create")
                    /\ in_connector' = {OWNING_ORGANIZATION_NAME}
               ELSE /\ in_connector' = {}
                    /\ UNCHANGED <<groups_added_by_user_key, adding_dashboard_user_key,
                                   sent, queue>>
    /\ pc' = IF todo' = {} THEN accessor_loop_pc(2) ELSE pc
    /\ cur' = IF todo' = {} THEN accessor_loop_cur(2) ELSE cur
    /\ user_to_group_map' = IF todo' = {} THEN accessor_loop_map(2) ELSE user_to_group_map
    /\ UNCHANGED <<inputvars, remove_user_key_list,
                   need_to_process_orphaned_dashboard_users, mapped_groups,
                   desired_groups_by_user_key, dashboard_user_by_user_key,
                   dashboard_users_loaded, orphaned_dashboard_user_by_user_key,
                   groups_removed_by_user_key, cleanvars,
                   had_work, orphans_gathered, error>>
    /\ UNCHANGED <<failed_create_user_keys, keyvars, drain_passes, all_users_loaded, dashboard_user_attributes>>

\* process_dashboard_users: one turn of the loop over the users left unmatched
\* by an accessor's diff
UnprocessedStep ==
    /\ pc = "accessor_unprocessed"
    /\ \E user_key \in todo :
        /\ todo' = todo \ {user_key}
        /\ try_and_update_dashboard_user(Connectors[cur], user_key, FALSE, {},
                                         user_to_group_map[user_key], {})
    /\ pc' = IF error' # "none" THEN "failed"
             ELSE IF todo' = {} THEN accessor_loop_pc(cur + 1) ELSE pc
    /\ cur' = IF error' = "none" /\ todo' = {} THEN accessor_loop_cur(cur + 1) ELSE cur
    /\ user_to_group_map' =
            IF error' = "none" /\ todo' = {} THEN accessor_loop_map(cur + 1)
            ELSE user_to_group_map
    /\ UNCHANGED <<inputvars, remove_user_key_list, adding_dashboard_user_key,
                   need_to_process_orphaned_dashboard_users, mapped_groups,
                   desired_groups_by_user_key, dashboard_user_by_user_key,
                   dashboard_users_loaded, orphaned_dashboard_user_by_user_key,
                   cleanvars, had_work, orphans_gathered>>
    /\ UNCHANGED <<blank_country_user_keys, failed_create_user_keys, keyvars, drain_passes, all_users_loaded, dashboard_user_attributes>>

(***************************************************************************)
(* process_orphaned_dashboard_users.                                       *)
(***************************************************************************)
iter_orphaned_dashboard_users(orphan_account_types) ==
    {u \in orphaned_dashboard_user_by_user_key[OWNING_ORGANIZATION_NAME] :
        is_selected_user_key(u) /\ KeyType(u) \in orphan_account_types}

\* process_orphaned_dashboard_users: the orphans it gathers
orphaned_dashboard_users ==
    IF need_to_process_remove_users
    THEN iter_orphaned_dashboard_users(managed_identity_types)
    ELSE iter_orphaned_dashboard_users({})

\* the test of max_missing_users with >= for >
too_many_orphans_inclusive(number_of_orphaned_dashboard_users, max_missing_users) ==
    number_of_orphaned_dashboard_users >= max_missing_users

\* process_orphaned_dashboard_users: it raises AssertionException
too_many_orphans(number_of_orphaned_dashboard_users, max_missing_users) ==
    number_of_orphaned_dashboard_users > max_missing_users

\* the loop of process_orphaned_dashboard_users with the test of
\* max_deletions_per_run after the orphan is added
orphans_to_enqueue_one_more(number_of_orphaned_dashboard_users, max_deletions_per_run) ==
    Min(number_of_orphaned_dashboard_users, max_deletions_per_run + 1)

\* process_orphaned_dashboard_users: how many orphans the loop adds to the
\* removal list before orphan_count exceeds max_deletions_per_run
orphans_to_enqueue(number_of_orphaned_dashboard_users, max_deletions_per_run) ==
    Min(number_of_orphaned_dashboard_users, max_deletions_per_run)

\* process_orphaned_dashboard_users with the output paths not looked at
automatic_removal_whatever_written ==
    options.remove_nonexistent_users \/ options.delete_nonexistent_users

\* process_orphaned_dashboard_users: neither list is written and removal or
\* deletion of the orphans is asked for
automatic_removal ==
    /\ ~options.remove_list_output_path
    /\ ~options.delete_list_output_path
    /\ options.remove_nonexistent_users \/ options.delete_nonexistent_users

ProcessOrphans ==
    /\ pc = "orphans"
    /\ \E max_missing_users \in 0..MaxLimit, max_deletions_per_run \in 0..MaxLimit :
        LET orphans == orphaned_dashboard_users IN
        \* a limit is compared with the number of orphans only
        /\ (~automatic_removal \/ orphans = {})
                => (max_missing_users = 0 /\ max_deletions_per_run = 0)
        /\ options' = [options EXCEPT !.max_missing_users = max_missing_users,
                                      !.max_deletions_per_run = max_deletions_per_run]
        /\ IF automatic_removal /\ too_many_orphans(Cardinality(orphans), max_missing_users)
           THEN /\ error' = "AssertionException"
                /\ pc' = "failed"
                /\ orphans_gathered' = [processed |-> TRUE, users |-> orphans,
                                        enqueued |-> {}, written |-> FALSE]
                /\ UNCHANGED remove_user_key_list
           ELSE /\ UNCHANGED error
                /\ IF automatic_removal
                   THEN \* the loop takes the orphans in the order of the dictionary
                        \E chosen \in SUBSET orphans :
                            /\ Cardinality(chosen) =
                                 orphans_to_enqueue(Cardinality(orphans), max_deletions_per_run)
                            /\ remove_user_key_list' = remove_user_key_list \cup chosen
                            /\ orphans_gathered' =
                                    [processed |-> TRUE, users |-> orphans,
                                     enqueued |-> chosen, written |-> FALSE]
                   ELSE /\ UNCHANGED remove_user_key_list
                        /\ orphans_gathered' =
                                [processed |-> TRUE, users |-> orphans, enqueued |-> {},
                                 written |-> options.remove_list_output_path
                                             \/ options.delete_list_output_path]
                /\ pc' = clean_pc(remove_user_key_list')
    /\ in_connector' = {}
    /\ UNCHANGED <<index_map, directory_connector, directory_user_by_user_key,
                   filtered_directory_user_by_user_key, input_size, adding_dashboard_user_key,
                   need_to_process_orphaned_dashboard_users, orgvars, loopvars,
                   cleanvars, had_work, queue, sent>>
    /\ UNCHANGED <<blank_country_user_keys, failed_create_user_keys, keyvars, drain_passes, all_users_loaded, dashboard_user_attributes>>

(***************************************************************************)
(* clean_dashboard_users.                                                  *)
(***************************************************************************)
\* try_and_remove_from_org without the test of total_waiting
will_remove_from_org_not_counted(total_waiting, user_key) ==
    \/ ~dashboard_users_loaded[OWNING_ORGANIZATION_NAME]
    \/ user_key \in DOMAIN dashboard_user_by_user_key[OWNING_ORGANIZATION_NAME]

\* try_and_remove_from_org without the test of the table of the owning organization
will_remove_from_org_not_known(total_waiting, user_key) == total_waiting[user_key] = 0

\* try_and_remove_from_org: whether it sends the remove-from-organization command
will_remove_from_org(total_waiting, user_key) ==
    /\ total_waiting[user_key] = 0
    /\ \/ ~dashboard_users_loaded[OWNING_ORGANIZATION_NAME]
       \/ user_key \in DOMAIN dashboard_user_by_user_key[OWNING_ORGANIZATION_NAME]

remove_from_org_commands(user_key) ==
    [NoCommands(OWNING_ORGANIZATION_NAME, user_key) EXCEPT !.remove_from_org = TRUE]

\* on_remove_groups_callback without the test of ready_to_remove_from_org
on_remove_groups_callback_not_gated(total_waiting, user_key) ==
    will_remove_from_org(total_waiting, user_key)

\* on_remove_groups_callback: whether it sends the command
on_remove_groups_callback_removes(total_waiting, user_key) ==
    ready_to_remove_from_org /\ will_remove_from_org(total_waiting, user_key)

\* clean_dashboard_users up to the loop over the accessor connectors
CleanStart ==
    /\ pc = "clean"
    /\ pc' = "clean_loop"
    /\ cur' = 2
    /\ total_waiting_by_user_key' = [u \in remove_user_key_list |-> 0]
    /\ ready_to_remove_from_org' = FALSE
    /\ UNCHANGED <<todo, had_work>>
    /\ in_connector' = {}
    /\ UNCHANGED <<inputvars, remove_user_key_list, adding_dashboard_user_key,
                   need_to_process_orphaned_dashboard_users, orgvars,
                   user_to_group_map, queue, sent, orphans_gathered, error>>
    /\ UNCHANGED <<blank_country_user_keys, failed_create_user_keys, keyvars, drain_passes, all_users_loaded, dashboard_user_attributes>>

\* clean_dashboard_users: the head of the loop over the accessor connectors and,
\* after it, ready_to_remove_from_org = True
CleanLoop ==
    /\ pc = "clean_loop"
    /\ cur' = next_mapped(cur)
    /\ todo' = remove_user_key_list
    /\ IF cur' > Len(Connectors)
       THEN /\ ready_to_remove_from_org' = TRUE
            /\ pc' = "clean_remove"
       ELSE /\ pc' = "clean_users"
            /\ UNCHANGED ready_to_remove_from_org
    /\ in_connector' = {}
    /\ UNCHANGED <<inputvars, remove_user_key_list, adding_dashboard_user_key,
                   need_to_process_orphaned_dashboard_users, orgvars,
                   user_to_group_map, total_waiting_by_user_key, had_work,
                   queue, sent, orphans_gathered, error>>
    /\ UNCHANGED <<blank_country_user_keys, failed_create_user_keys, keyvars, drain_passes, all_users_loaded, dashboard_user_attributes>>

\* the groups to remove for a user the organization does not know, the
\* organization's users loaded or not
unknown_user_groups_to_remove_loaded_or_not(org) == mapped_groups[org]

\* clean_dashboard_users: the groups to remove for a user the organization
\* does not know
unknown_user_groups_to_remove(org) ==
    IF ~dashboard_users_loaded[org] THEN mapped_groups[org] ELSE {}

\* clean_dashboard_users: one turn of the loop over the removal list for one
\* accessor.  For a user the accessor knows, self.dashboard_user is read: the
\* RuleProcessor has no such attribute, and AttributeError is raised.
CleanGroupsStep ==
    /\ pc = "clean_users"
    /\ LET org == Connectors[cur] IN
       \E user_key \in todo :
        LET groups_to_remove == unknown_user_groups_to_remove(org)
            \* commands.remove_groups(groups_to_remove): the groups as they
            \* are, in one call that gives no group type
            commands == [NoCommands(org, user_key) EXCEPT
                            !.remove = groups_to_remove,
                            !.remove_calls = {<<groups_to_remove, "">>}]
        IN  /\ todo' = todo \ {user_key}
            /\ IF user_key \in DOMAIN dashboard_user_by_user_key[org]
               THEN /\ error' = "AttributeError"
                    /\ in_connector' = {}
                    /\ UNCHANGED <<total_waiting_by_user_key, sent, queue>>
               ELSE IF groups_to_remove # {}
               THEN /\ total_waiting_by_user_key' =
                        [total_waiting_by_user_key EXCEPT ![user_key] = @ + 1]
                    /\ sent' = Sent(sent, commands)
                    /\ queue' = Queued(queue, commands, "remove_groups")
                    /\ in_connector' = {org}
                    /\ UNCHANGED error
               ELSE /\ in_connector' = {}
                    /\ UNCHANGED <<total_waiting_by_user_key, sent, queue, error>>
    /\ pc' = IF error' # "none" THEN "failed"
             ELSE IF todo' = {} THEN "clean_loop" ELSE pc
    /\ cur' = IF error' = "none" /\ todo' = {} THEN cur + 1 ELSE cur
    /\ UNCHANGED <<inputvars, remove_user_key_list, adding_dashboard_user_key,
                   need_to_process_orphaned_dashboard_users, orgvars,
                   user_to_group_map, ready_to_remove_from_org, had_work,
                   orphans_gathered>>
    /\ UNCHANGED <<blank_country_user_keys, failed_create_user_keys, keyvars, drain_passes, all_users_loaded, dashboard_user_attributes>>

\* clean_dashboard_users: one turn of the final loop, try_and_remove_from_org
CleanRemoveStep ==
    /\ pc = "clean_remove"
    /\ \E user_key \in todo :
        /\ todo' = todo \ {user_key}
        /\ IF will_remove_from_org(total_waiting_by_user_key, user_key)
           THEN /\ sent' = Sent(sent, remove_from_org_commands(user_key))
                /\ queue' = Queued(queue, remove_from_org_commands(user_key), "none")
                /\ in_connector' = {OWNING_ORGANIZATION_NAME}
           ELSE /\ in_connector' = {}
                /\ UNCHANGED <<sent, queue>>
    /\ pc' = IF todo' = {} THEN "drain" ELSE pc
    /\ cur' = IF todo' = {} THEN 1 ELSE cur
    /\ had_work' = FALSE
    /\ UNCHANGED <<inputvars, remove_user_key_list, adding_dashboard_user_key,
                   need_to_process_orphaned_dashboard_users, orgvars,
                   user_to_group_map, cleanvars, orphans_gathered, error>>
    /\ UNCHANGED <<blank_country_user_keys, failed_create_user_keys, keyvars, drain_passes, all_users_loaded, dashboard_user_attributes>>

(***************************************************************************)
(* Completion callbacks.  A connector completes its commands in the order  *)
(* it received them, while run() is inside send_commands of that connector *)
(* or inside its flush.  Completing a command that has no callback changes *)
(* nothing but the connector's outstanding work, so such a command is      *)
(* completed together with the next command that has a callback, or when   *)
(* flush returns.                                                          *)
(***************************************************************************)
\* the position in the connector's queue of the first command with a callback,
\* 0 if there is none
first_callback(org) ==
    IF \E i \in 1..Len(queue[org]) : queue[org][i].callback # "none"
    THEN CHOOSE i \in 1..Len(queue[org]) :
            /\ queue[org][i].callback # "none"
            /\ \A j \in 1..(i - 1) : queue[org][j].callback = "none"
    ELSE 0

\* the queue once that command and those before it have completed
after_callback(org) == SubSeq(queue[org], first_callback(org) + 1, Len(queue[org]))

\* whether the connector may complete commands now
may_complete(org) ==
    /\ first_callback(org) > 0
    /\ pc \notin {"failed", "done"}
    /\ \/ org \in in_connector
       \/ pc = "flush" /\ org = Connectors[cur]

\* add_dashboard_user.callback on success: the idempotence sets, after
\* calculate_groups_to_add for the accessors that do not know the user
callback_groups_added(user_key) ==
    [o \in Orgs |->
        IF o \in Accessors /\ user_key \notin DOMAIN dashboard_user_by_user_key[o]
        THEN register_new_groups(groups_added_by_user_key[o], user_key,
                                 Get(desired_groups_by_user_key[o], user_key))
        ELSE groups_added_by_user_key[o]]

\* the callback sending each accessor an update with no groups
callback_commands_without_groups(user_key) ==
    [i \in 1..Len(AccessorNames) |->
        update_dashboard_user(AccessorNames[i], user_key, {}, {}, {})]

\* add_dashboard_user.callback on success: the update sent to each accessor
callback_commands(user_key) ==
    [i \in 1..Len(AccessorNames) |->
        update_dashboard_user(AccessorNames[i], user_key, {},
            Get(callback_groups_added(user_key)[AccessorNames[i]], user_key),
            Get(groups_removed_by_user_key[AccessorNames[i]], user_key))]

\* the callback with the user discarded only if the create succeeded
callback_discard_on_success(user_key, is_success) ==
    IF is_success THEN adding_dashboard_user_key \ {user_key} ELSE adding_dashboard_user_key

\* add_dashboard_user.callback: self.adding_dashboard_user_key.discard(user_key),
\* before is_success is read
callback_discard(user_key, is_success) == adding_dashboard_user_key \ {user_key}

\* a create command completes: add_dashboard_user.callback(response)
CreateCallback(org) ==
    /\ may_complete(org)
    /\ queue[org][first_callback(org)].callback = "create"
    /\ LET user_key == queue[org][first_callback(org)].user IN
       \E is_success \in BOOLEAN :
        /\ adding_dashboard_user_key' = callback_discard(user_key, is_success)
        /\ failed_create_user_keys' =
                IF is_success THEN failed_create_user_keys
                ELSE failed_create_user_keys \cup {user_key}
        /\ IF is_success /\ will_manage_groups
           THEN /\ groups_added_by_user_key' = callback_groups_added(user_key)
                /\ sent' = sent \o callback_commands(user_key)
                /\ queue' = [o \in Orgs |->
                        IF o \in Accessors
                        THEN Append(IF o = org THEN after_callback(o) ELSE queue[o],
                                    [user |-> user_key, callback |-> "none"])
                        ELSE IF o = org THEN after_callback(o) ELSE queue[o]]
                /\ in_connector' = in_connector \cup Accessors
           ELSE /\ queue' = [queue EXCEPT ![org] = after_callback(org)]
                /\ UNCHANGED <<groups_added_by_user_key, sent, in_connector>>
    /\ UNCHANGED <<inputvars, pc, remove_user_key_list,
                   need_to_process_orphaned_dashboard_users, mapped_groups,
                   desired_groups_by_user_key, dashboard_user_by_user_key,
                   dashboard_users_loaded, orphaned_dashboard_user_by_user_key,
                   groups_removed_by_user_key, loopvars, cleanvars, had_work,
                   orphans_gathered, error>>
    /\ UNCHANGED <<blank_country_user_keys, keyvars, drain_passes, all_users_loaded, dashboard_user_attributes>>

\* a group removal of clean_dashboard_users completes: on_remove_groups_callback
RemoveGroupsCallback(org) ==
    /\ may_complete(org)
    /\ queue[org][first_callback(org)].callback = "remove_groups"
    /\ LET user_key == queue[org][first_callback(org)].user
           total_waiting == [total_waiting_by_user_key EXCEPT ![user_key] = @ - 1]
       IN  /\ total_waiting_by_user_key' = total_waiting
           /\ IF on_remove_groups_callback_removes(total_waiting, user_key)
              THEN /\ sent' = Sent(sent, remove_from_org_commands(user_key))
                   /\ queue' = Queued([queue EXCEPT ![org] = after_callback(org)],
                                      remove_from_org_commands(user_key), "none")
                   /\ in_connector' = in_connector \cup {OWNING_ORGANIZATION_NAME}
              ELSE /\ queue' = [queue EXCEPT ![org] = after_callback(org)]
                   /\ UNCHANGED <<sent, in_connector>>
    /\ UNCHANGED <<inputvars, pc, remove_user_key_list, adding_dashboard_user_key,
                   need_to_process_orphaned_dashboard_users, orgvars, loopvars,
                   ready_to_remove_from_org, had_work, orphans_gathered, error>>
    /\ UNCHANGED <<blank_country_user_keys, failed_create_user_keys, keyvars, drain_passes, all_users_loaded, dashboard_user_attributes>>

(***************************************************************************)
(* DashboardConnectors.execute_actions.                                    *)
(***************************************************************************)
\* action_manager.has_work()
has_work(org) == queue[org] # <<>>

\* the index of the first connector from index i on that has a command with a
\* callback, Len(Connectors) + 1 if there is none
next_with_callback(i) ==
    IF \E j \in i..Len(Connectors) : first_callback(Connectors[j]) > 0
    THEN CHOOSE j \in i..Len(Connectors) :
            /\ first_callback(Connectors[j]) > 0
            /\ \A k \in i..(j - 1) : first_callback(Connectors[k]) = 0
    ELSE Len(Connectors) + 1

\* the connectors the loop passes from index i up to that one: flush is called
\* on those that have work and completes their commands, none has a callback
passed_connectors(i) == {Connectors[j] : j \in i..(next_with_callback(i) - 1)}

\* whether a connector had work in the pass that ends with the connectors
\* from index i on passed
had_work_in_pass(i) == had_work \/ \E o \in passed_connectors(i) : has_work(o)

\* execute_actions with one pass only
another_pass_never(had_work_in_this_pass) == FALSE

\* execute_actions with no way out of its loop
another_pass_always(had_work_in_this_pass) == TRUE

\* execute_actions: "if not had_work: break"
another_pass(had_work_in_this_pass) == had_work_in_this_pass

\* the loop over the connectors, up to the next call of flush on a connector
\* that has a command with a callback; after the last connector, the test of
\* had_work and, if no connector is left with work, the pass that finds none
ExecuteActions ==
    /\ pc = "drain"
    /\ queue' = [o \in Orgs |-> IF o \in passed_connectors(cur) THEN <<>> ELSE queue[o]]
    /\ IF next_with_callback(cur) > Len(Connectors)
       THEN \* the pass after this one, if no connector is left with work,
            \* finds none and has the test of had_work decide at once
            /\ pc' = IF /\ another_pass(had_work_in_pass(cur))
                        /\ \/ \E o \in Orgs \ passed_connectors(cur) : has_work(o)
                           \/ another_pass(FALSE)
                     THEN "drain" ELSE "done"
            /\ cur' = 1
            /\ had_work' = FALSE
            /\ drain_passes' = drain_passes + (IF had_work_in_pass(cur) THEN 1 ELSE 0)
       ELSE /\ pc' = "flush"
            /\ had_work' = TRUE
            /\ cur' = next_with_callback(cur)
            /\ UNCHANGED drain_passes
    /\ in_connector' = {}
    /\ UNCHANGED <<inputvars, remove_user_key_list, adding_dashboard_user_key,
                   need_to_process_orphaned_dashboard_users, orgvars,
                   user_to_group_map, todo, cleanvars, sent,
                   orphans_gathered, error>>
    /\ UNCHANGED <<blank_country_user_keys, failed_create_user_keys, keyvars,
                   all_users_loaded, dashboard_user_attributes>>

\* action_manager.flush() returns: the connector has completed the commands it
\* had, the callbacks have run
FlushReturns ==
    /\ pc = "flush"
    /\ first_callback(Connectors[cur]) = 0
    /\ queue' = [queue EXCEPT ![Connectors[cur]] = <<>>]
    /\ pc' = "drain"
    /\ cur' = cur + 1
    /\ in_connector' = {}
    /\ UNCHANGED <<inputvars, remove_user_key_list, adding_dashboard_user_key,
                   need_to_process_orphaned_dashboard_users, orgvars,
                   user_to_group_map, todo, cleanvars, had_work, sent,
                   orphans_gathered, error>>
    /\ UNCHANGED <<blank_country_user_keys, failed_create_user_keys, keyvars, drain_passes, all_users_loaded, dashboard_user_attributes>>

Next ==
    \/ RunWithoutDirectory
    \/ RunLoadDirectory
    \/ DiffStep
    \/ DiffEnd
    \/ AddDashboardUser
    \/ UnprocessedStep
    \/ ProcessOrphans
    \/ CleanStart
    \/ CleanLoop
    \/ CleanGroupsStep
    \/ CleanRemoveStep
    \/ \E org \in Orgs : CreateCallback(org)
    \/ \E org \in Orgs : RemoveGroupsCallback(org)
    \/ ExecuteActions
    \/ FlushReturns

Spec == Init /\ [][Next]_vars

\* The run with connectors that complete every command they were sent and
\* invoke its callback, and with clean_dashboard_users and execute_actions
\* going on as long as they can.
SpecLive ==
    /\ Spec
    /\ WF_vars(CleanStart \/ CleanLoop \/ CleanGroupsStep \/ CleanRemoveStep)
    /\ WF_vars(ExecuteActions)
    /\ WF_vars(FlushReturns)
    /\ WF_vars(\E org \in Orgs : CreateCallback(org))
    /\ WF_vars(\E org \in Orgs : RemoveGroupsCallback(org))

(***************************************************************************)
(* The user-key functions on their own: get_user_key is called with any    *)
(* arguments, parse_user_key with the key it returned.                     *)
(***************************************************************************)
runvars == <<options, index_map, pc, directory_user_by_user_key,
             filtered_directory_user_by_user_key, remove_user_key_list,
             adding_dashboard_user_key, need_to_process_orphaned_dashboard_users,
             orgvars, loopvars, cleanvars, had_work, queue, sent, in_connector,
             orphans_gathered, error, directory_connector, input_size,
             blank_country_user_keys, failed_create_user_keys, drain_passes,
             all_users_loaded, dashboard_user_attributes>>

GetUserKey ==
    /\ key_pc = "idle"
    /\ \E username \in Strings, domain \in Strings, email \in Strings,
          id_type \in IdentityTypeInputs :
        \* the email is used only in place of an empty username
        /\ normalize_string(username) # <<>> => email = <<>>
        /\ key_args' = [username |-> username, domain |-> domain, email |-> email,
                        id_type |-> id_type]
        /\ IF parse_identity_type_raises(id_type)
           THEN /\ key_pc' = "raised"
                /\ UNCHANGED derived_user_key
           ELSE /\ key_pc' = "derived"
                /\ derived_user_key' = get_user_key(username, domain, email, id_type)
    /\ UNCHANGED <<parsed_user_key, runvars>>

ParseUserKey ==
    /\ key_pc = "derived"
    /\ derived_user_key # <<>>
    /\ parsed_user_key' = parse_user_key(derived_user_key)
    /\ key_pc' = "parsed"
    /\ UNCHANGED <<key_args, derived_user_key, runvars>>

\* read_desired_user_groups: the body of its loop for one directory user, whose
\* key is what get_user_key returned, None included.  No username filter and
\* no removal list are configured here, and the user has no mapped group.
ReadDirectoryUser ==
    /\ key_pc = "derived"
    /\ \E in_groups \in BOOLEAN :
        LET user_key == derived_user_key
            selected == is_selected_directory_user(user_key, in_groups)
        IN  /\ directory_user_by_user_key' =
                    Put(directory_user_by_user_key, user_key,
                        [in_groups |-> in_groups, target_groups |-> {}])
            /\ filtered_directory_user_by_user_key' =
                    IF selected THEN filtered_directory_user_by_user_key \cup {user_key}
                    ELSE filtered_directory_user_by_user_key
            /\ desired_groups_by_user_key' =
                    IF selected
                    THEN [desired_groups_by_user_key EXCEPT
                            ![OWNING_ORGANIZATION_NAME] = Put(@, user_key, {})]
                    ELSE desired_groups_by_user_key
    /\ key_pc' = "tracked"
    /\ UNCHANGED <<options, index_map, pc, remove_user_key_list,
                   adding_dashboard_user_key, need_to_process_orphaned_dashboard_users,
                   mapped_groups, dashboard_user_by_user_key, dashboard_users_loaded,
                   orphaned_dashboard_user_by_user_key, groups_added_by_user_key,
                   groups_removed_by_user_key, loopvars, cleanvars, had_work, queue,
                   sent, in_connector, orphans_gathered, error, directory_connector,
                   input_size, blank_country_user_keys, failed_create_user_keys,
                   drain_passes, all_users_loaded, dashboard_user_attributes,
                   key_args, derived_user_key, parsed_user_key>>

InitKey ==
    /\ Init
    /\ ~directory_connector
    /\ input_size = 0
    /\ ~options.remove_nonexistent_users

NextKey == GetUserKey \/ ParseUserKey \/ ReadDirectoryUser

SpecKey == InitKey /\ [][NextKey]_vars

(***************************************************************************)
(* Properties of the issued commands.                                      *)
(***************************************************************************)
\* the positions in the log of the commands sent for a user of an organization
CommandsFor(org, user_key) ==
    {i \in 1..Len(sent) : sent[i].org = org /\ sent[i].user = user_key}

\* the positions of the create commands sent for a user
Creates(user_key) ==
    {i \in 1..Len(sent) : sent[i].user = user_key /\ sent[i].create}

\* the positions of the remove-from-organization commands sent for a user
RemovesFromOrg(user_key) ==
    {i \in 1..Len(sent) : sent[i].user = user_key /\ sent[i].remove_from_org}

\* a selected directory user that no connector has yielded
Unmatched(user_key) ==
    /\ user_key \in filtered_directory_user_by_user_key
    /\ \A org \in Orgs : user_key \notin DOMAIN dashboard_user_by_user_key[org]

\* C1: for every organization, user and group, at most one command of the run
\* carries the add of the group for the user in the organization, and at most
\* one carries its removal, whichever of the diff, the create command, the
\* fan-out after a create and clean_dashboard_users sent it and however the
\* callbacks interleave with the steps of run(): no two commands sent for the
\* same user of the same organization add a common group or remove one.
C1_GroupCommandAtMostOnce ==
    \A i, j \in 1..Len(sent) :
        (i < j /\ sent[i].org = sent[j].org /\ sent[i].user = sent[j].user) =>
            /\ sent[i].add \cap sent[j].add = {}
            /\ sent[i].remove \cap sent[j].remove = {}

\* C1, its case: the fan-out of a create has added a group in an accessor, and
\* the accessor's diff has then met the same user still lacking the group
C1_Witness ==
    \E user_key \in UserKeys, i, j \in 1..Len(sent) :
        /\ i < j
        /\ Creates(user_key) # {}
        /\ {i, j} \subseteq CommandsFor("acc1", user_key)
        /\ sent[i].add # {}
        /\ user_key \in DOMAIN dashboard_user_by_user_key["acc1"]
        /\ sent[i].add \cap normalize_groups(dashboard_user_by_user_key["acc1"][user_key]) = {}

\* C2: a remove-from-organization command for a user is never sent before a
\* command that removes groups from that user in an accessor organization:
\* every such group removal comes earlier in the order of issue.
C2_RemoveFromOrgAfterGroupRemovals ==
    \A i, j \in 1..Len(sent) :
        (/\ sent[i].remove_from_org
         /\ sent[j].org \in Accessors
         /\ sent[j].user = sent[i].user
         /\ sent[j].remove # {}) => j < i

\* C2, its case: the user was removed from the owning organization after the
\* group removals of two accessors had been sent
C2_Witness ==
    \E i \in 1..Len(sent) :
        /\ sent[i].remove_from_org
        /\ sent[i].user \in remove_user_key_list
        /\ \A org \in Accessors :
            \E j \in 1..(i - 1) : /\ sent[j].org = org
                                  /\ sent[j].user = sent[i].user
                                  /\ sent[j].remove # {}

\* C3: with automatic removal (no output path), once the orphans are gathered:
\* if they are more than max_missing_users the run has ended with the fatal
\* AssertionException and no remove-from-organization command was sent for
\* any user, the keys of the input removal list included; if they are
\* max_missing_users or fewer the run is not ended by that exception.
C3_TooManyOrphansAbort ==
    (orphans_gathered.processed /\ automatic_removal) =>
        IF Cardinality(orphans_gathered.users) > options.max_missing_users
        THEN /\ pc = "failed"
             /\ error = "AssertionException"
             /\ \A i \in 1..Len(sent) : ~sent[i].remove_from_org
        ELSE error # "AssertionException"

\* C3, its case: the run was aborted with a key in the input removal list
C3_Witness ==
    /\ error = "AssertionException"
    /\ options.remove_user_key_list # {}
    /\ Cardinality(orphans_gathered.users) > options.max_missing_users

\* C4: when the run is aborted for too many orphans, no command that removes
\* groups and no remove-from-organization command has been sent before.
C4_NoDestructiveCommandBeforeAbort ==
    error = "AssertionException" =>
        \A i \in 1..Len(sent) : sent[i].remove = {} /\ ~sent[i].remove_from_org

\* C5 as stated: with automatic removal and the orphans within
\* max_missing_users, min(n, max_deletions_per_run) orphans are enqueued, and
\* the other orphans are not in the removal list and get no
\* remove-from-organization command.
C5_RemainingOrphansUntouched ==
    (orphans_gathered.processed /\ automatic_removal /\ error # "AssertionException") =>
        /\ Cardinality(orphans_gathered.enqueued) =
                Min(Cardinality(orphans_gathered.users), options.max_deletions_per_run)
        /\ \A user_key \in orphans_gathered.users \ orphans_gathered.enqueued :
                /\ user_key \notin remove_user_key_list
                /\ RemovesFromOrg(user_key) = {}

\* C5: with automatic removal and the orphans within max_missing_users,
\* exactly min(n, max_deletions_per_run) of the orphans are enqueued; the
\* removal list is the input list and these; an orphan that is neither
\* enqueued nor in the input removal list gets no remove-from-organization
\* command.
C5_EnqueuedOrphans ==
    (orphans_gathered.processed /\ automatic_removal /\ error # "AssertionException") =>
        /\ orphans_gathered.enqueued \subseteq orphans_gathered.users
        /\ Cardinality(orphans_gathered.enqueued) =
                Min(Cardinality(orphans_gathered.users), options.max_deletions_per_run)
        /\ remove_user_key_list = options.remove_user_key_list \cup orphans_gathered.enqueued
        /\ \A user_key \in orphans_gathered.users \ remove_user_key_list :
                RemovesFromOrg(user_key) = {}

\* C5, its case: the run is over and an orphan was left out of the removal list
C5_Witness ==
    /\ pc = "done"
    /\ automatic_removal
    /\ orphans_gathered.users \ remove_user_key_list # {}

\* whether add_dashboard_user can give the user a country
HasCountry(user_key) ==
    \/ user_key \notin blank_country_user_keys
    \/ options.default_country_code
    \/ KeyType(user_key) = ENTERPRISE_IDENTITY_TYPE

\* no command sent for the user updates attributes, removes groups or removes
\* the user from the organization
NoUpdateNoRemoval(user_key) ==
    \A i \in 1..Len(sent) :
        sent[i].user = user_key =>
            /\ sent[i].update = {}
            /\ sent[i].remove = {}
            /\ ~sent[i].remove_from_org

\* C6 as stated: when the run has ended, every selected directory user that
\* no connector yielded has got exactly one create command, and no command
\* that updates attributes or removes anything, over all organizations.
C6_EveryUnmatchedUserCreated ==
    pc \in {"done", "failed"} =>
        \A user_key \in UserKeys :
            Unmatched(user_key) =>
                Cardinality(Creates(user_key)) = 1 /\ NoUpdateNoRemoval(user_key)

\* C6: at any point of the run, a selected directory user that no connector
\* has yielded has got at most one create command and no command that updates
\* attributes or removes anything, over all organizations; once the creation
\* loop of process_dashboard_users has run it has got exactly one create
\* command, if its identity type is managed and it has a country (its own,
\* the default one, or UD for an enterprise user).
C6_UnmatchedUserCreatedOnce ==
    \A user_key \in UserKeys :
        Unmatched(user_key) =>
            /\ Cardinality(Creates(user_key)) <= 1
            /\ NoUpdateNoRemoval(user_key)
            /\ (/\ dashboard_users_loaded[OWNING_ORGANIZATION_NAME]
                /\ pc # "create"
                /\ KeyType(user_key) \in managed_identity_types
                /\ HasCountry(user_key)) => Cardinality(Creates(user_key)) = 1

\* C6, its case: the run is over and an enterprise user with no country, that
\* no connector yielded, was created
C6_Witness ==
    /\ pc = "done"
    /\ \E user_key \in blank_country_user_keys :
        Unmatched(user_key) /\ Creates(user_key) # {}

\* C7: every create command is sent to the owning organization for a
\* selected user it does not know, and the groups it carries are the user's
\* desired groups in the owning organization when manage_groups is set, and
\* none when it is not.
C7_CreateCarriesDesiredGroups ==
    \A i \in 1..Len(sent) :
        sent[i].create =>
            /\ sent[i].org = OWNING_ORGANIZATION_NAME
            /\ sent[i].user \in filtered_directory_user_by_user_key
            /\ sent[i].user \notin DOMAIN dashboard_user_by_user_key[OWNING_ORGANIZATION_NAME]
            /\ sent[i].add =
                IF options.manage_groups
                THEN Get(desired_groups_by_user_key[OWNING_ORGANIZATION_NAME], sent[i].user)
                ELSE {}

\* C7, its case: a create command that carries a group
C7_Witness ==
    \E i \in 1..Len(sent) : sent[i].create /\ sent[i].add # {}

\* C8: a user of a managed type that a connector yielded and that matches no
\* selected directory user is an orphan of the organization, and the groups
\* the commands sent for it in that organization remove are, when
\* manage_groups is set, the mapped groups of the organization among the
\* user's current groups, and none when it is not set.
C8_OrphanGroupsToRemove ==
    \A org \in Orgs :
        \A user_key \in DOMAIN dashboard_user_by_user_key[org] :
            (/\ KeyType(user_key) \in managed_identity_types
             /\ user_key \notin filtered_directory_user_by_user_key) =>
                /\ user_key \in orphaned_dashboard_user_by_user_key[org]
                /\ CommandsFor(org, user_key) # {}
                /\ UNION {sent[i].remove : i \in CommandsFor(org, user_key)} =
                        IF options.manage_groups
                        THEN mapped_groups[org]
                                \cap normalize_groups(dashboard_user_by_user_key[org][user_key])
                        ELSE {}

\* C8, its case: an orphan that is in a mapped group and in a group that is
\* not mapped, with manage_groups set
C8_Witness ==
    \E org \in Orgs :
        \E user_key \in orphaned_dashboard_user_by_user_key[org] :
            /\ options.manage_groups
            /\ normalize_groups(dashboard_user_by_user_key[org][user_key])
                    \cap mapped_groups[org] # {}
            /\ normalize_groups(dashboard_user_by_user_key[org][user_key])
                    \ mapped_groups[org] # {}

\* the groups a user is in once the commands sent from position i on have
\* been applied, in the order of issue
RECURSIVE groups_after(_, _, _, _)
groups_after(groups, org, user_key, i) ==
    IF i > Len(sent) THEN groups
    ELSE groups_after(IF sent[i].org = org /\ sent[i].user = user_key
                      THEN (groups \cup sent[i].add) \ sent[i].remove
                      ELSE groups,
                      org, user_key, i + 1)

\* the groups of the user in the organization after the run
GroupsAfterRun(org, user_key) ==
    groups_after(normalize_groups(Get(dashboard_user_by_user_key[org], user_key)),
                 org, user_key, 1)

Converged(user_key) ==
    \A org \in Orgs :
        mapped_groups[org] # {} =>
            GroupsAfterRun(org, user_key) \cap mapped_groups[org]
                = Get(desired_groups_by_user_key[org], user_key)

\* C10: when the run has ended, other than by the abort for too many orphans,
\* with manage_groups set and no command failed, every selected directory user
\* of a managed type that the owning organization knows or that was created
\* is, in every organization with a mapped group, in the mapped groups that
\* are its desired groups there and in no other mapped group.
C10_Convergence ==
    (/\ pc \in {"done", "failed"}
     /\ error # "AssertionException"
     /\ failed_create_user_keys = {}
     /\ options.manage_groups) =>
        \A user_key \in filtered_directory_user_by_user_key :
            (/\ KeyType(user_key) \in managed_identity_types
             /\ \/ user_key \in DOMAIN dashboard_user_by_user_key[OWNING_ORGANIZATION_NAME]
                \/ Creates(user_key) # {}) => Converged(user_key)

\* the create command of the user has been sent and its callback has not run
InFlight(user_key) ==
    \E k \in 1..Len(queue[OWNING_ORGANIZATION_NAME]) :
        /\ queue[OWNING_ORGANIZATION_NAME][k].user = user_key
        /\ queue[OWNING_ORGANIZATION_NAME][k].callback = "create"

\* C11: while the create command of a user is in flight, the create command is
\* the only command that has been sent for the user, to any organization; and
\* a command that adds groups to a created user in an accessor organization is
\* sent after the create command, whose callback has run by then.
C11_NoCommandWhileCreateInFlight ==
    /\ \A user_key \in UserKeys :
        InFlight(user_key) =>
            \A i \in 1..Len(sent) : sent[i].user = user_key => sent[i].create
    /\ \A i \in 1..Len(sent) :
        (sent[i].org \in Accessors /\ sent[i].add # {} /\ Creates(sent[i].user) # {}) =>
            /\ \E j \in 1..(i - 1) : sent[j].create /\ sent[j].user = sent[i].user
            /\ ~InFlight(sent[i].user)

\* C11, its case: an accessor's diff has asked to add groups to a user whose
\* create command is still in flight
C11_Witness ==
    \E user_key \in UserKeys :
        /\ InFlight(user_key)
        /\ Get(groups_added_by_user_key["acc1"], user_key) # {}

\* C12: a user whose create command completed with failure gets no command in
\* any accessor organization.
C12_NoAccessorCommandAfterFailedCreate ==
    \A user_key \in failed_create_user_keys :
        \A org \in Accessors : CommandsFor(org, user_key) = {}

\* C13: when execute_actions has returned, no connector has outstanding
\* work, whichever connector a callback enqueued a command on during a flush.
C13_NoWorkLeftAfterDrain ==
    pc = "done" => \A org \in Orgs : ~has_work(org)

\* C13, its case: execute_actions has returned after a second pass that found
\* work, which a callback had enqueued, during the flush of an accessor, on the
\* owning connector, already passed
C13_Witness ==
    /\ pc = "done"
    /\ drain_passes >= 2
    /\ sent # <<>>
    /\ sent[Len(sent)].org = OWNING_ORGANIZATION_NAME

\* every entry of the dictionary is in the other one, with no group lost
GrownFrom(before, after) ==
    \A user_key \in DOMAIN before :
        user_key \in DOMAIN after /\ before[user_key] \subseteq after[user_key]

\* computing the new groups a second time, after they were registered in the
\* dictionary, gives none, for any user and any candidate set
SecondDeltaEmpty(current_groups_by_user_key) ==
    \A user_key \in UserKeys, desired_groups \in SUBSET Groups :
        get_new_groups(register_new_groups(current_groups_by_user_key, user_key,
                                           desired_groups),
                       user_key, desired_groups) = {}

\* C14: in every step of a run and for every organization, the entries of
\* groups_added_by_user_key and groups_removed_by_user_key stay and lose no
\* group; and for every value the two dictionaries take, the initial one and
\* each one a step changes them to, computing the new groups a second time
\* with the same candidate set gives none.
C14_RecordedGroupsOnlyGrow ==
    /\ \A org \in Orgs : /\ SecondDeltaEmpty(groups_added_by_user_key[org])
                         /\ SecondDeltaEmpty(groups_removed_by_user_key[org])
    /\ [][\A org \in Orgs :
            /\ GrownFrom(groups_added_by_user_key[org], groups_added_by_user_key'[org])
            /\ GrownFrom(groups_removed_by_user_key[org], groups_removed_by_user_key'[org])
            /\ groups_added_by_user_key'[org] # groups_added_by_user_key[org]
                    => SecondDeltaEmpty(groups_added_by_user_key'[org])
            /\ groups_removed_by_user_key'[org] # groups_removed_by_user_key[org]
                    => SecondDeltaEmpty(groups_removed_by_user_key'[org])]_vars

\* C14, its case: a group was registered as added for a user of an accessor,
\* and a later command for the user, computed from a candidate set with the
\* group in it, adds nothing
C14_Witness ==
    \E user_key \in UserKeys, i, j \in 1..Len(sent) :
        /\ i < j
        /\ {i, j} \subseteq CommandsFor("acc1", user_key)
        /\ sent[i].add # {}
        /\ sent[i].add \subseteq Get(groups_added_by_user_key["acc1"], user_key)
        /\ sent[i].add \subseteq Get(desired_groups_by_user_key["acc1"], user_key)
        /\ sent[j].add = {}

\* C15: every loaded directory user that is in a group of the filter, that
\* the username filter accepts and that is not in the input removal list has an
\* entry in the desired map of the owning organization; and every key of a
\* desired map, of any organization, is a loaded directory user that is in a
\* group of the filter, accepted by the username filter and not in the
\* removal list.
C15_DesiredMapIsTheSelectedUsers ==
    /\ \A user_key \in DOMAIN directory_user_by_user_key :
        (/\ directory_user_by_user_key[user_key].in_groups
         /\ user_key \notin options.username_filter_rejects
         /\ user_key \notin options.remove_user_key_list) =>
            user_key \in DOMAIN desired_groups_by_user_key[OWNING_ORGANIZATION_NAME]
    /\ \A org \in Orgs :
        \A user_key \in DOMAIN desired_groups_by_user_key[org] :
            /\ user_key \in DOMAIN directory_user_by_user_key
            /\ directory_user_by_user_key[user_key].in_groups
            /\ user_key \notin options.username_filter_rejects
            /\ user_key \notin remove_user_key_list

\* C15, its case: the build has kept a user with no group and dropped a user
\* outside the group filter, or that the username filter rejects, or that is
\* in the removal list
C15_Witness ==
    /\ \E user_key \in DOMAIN desired_groups_by_user_key[OWNING_ORGANIZATION_NAME] :
            desired_groups_by_user_key[OWNING_ORGANIZATION_NAME][user_key] = {}
    /\ \E user_key \in DOMAIN directory_user_by_user_key :
            /\ user_key \notin DOMAIN desired_groups_by_user_key[OWNING_ORGANIZATION_NAME]
            /\ \/ ~directory_user_by_user_key[user_key].in_groups
               \/ user_key \in options.username_filter_rejects
               \/ user_key \in options.remove_user_key_list

\* C16: if the directory connector answers that it did not load all users, the
\* run processes no orphans: the removal list stays the one of the options, no
\* orphans are gathered and no list of them is written, whatever the options
\* about removal and deletion are.
C16_NoOrphanProcessingOnPartialListing ==
    ~all_users_loaded =>
        /\ ~orphans_gathered.processed
        /\ ~orphans_gathered.written
        /\ orphans_gathered.enqueued = {}
        /\ remove_user_key_list = options.remove_user_key_list

\* a run with removal of orphans asked for and the listing not complete has
\* ended, an organization having had an orphan
C16_Witness ==
    /\ ~all_users_loaded
    /\ pc = "done"
    /\ options.remove_nonexistent_users \/ options.remove_list_output_path
    /\ orphaned_dashboard_user_by_user_key[OWNING_ORGANIZATION_NAME] # {}

\* C17: with the path of a removal list or of a deletion list configured,
\* process_orphaned_dashboard_users writes the list and does nothing else: it
\* adds no key to the removal list and does not compare the number of orphans
\* with max_missing_users, the options asking for automatic removal or not.
C17_OutputPathOnlyWritesTheList ==
    (/\ orphans_gathered.processed
     /\ options.remove_list_output_path \/ options.delete_list_output_path) =>
        /\ orphans_gathered.written
        /\ orphans_gathered.enqueued = {}
        /\ remove_user_key_list = options.remove_user_key_list
        /\ error # "AssertionException"

\* the list was written of more orphans than max_missing_users, with
\* automatic removal asked for as well
C17_Witness ==
    /\ orphans_gathered.processed
    /\ orphans_gathered.written
    /\ options.remove_list_output_path
    /\ options.remove_nonexistent_users
    /\ Cardinality(orphans_gathered.users) > options.max_missing_users

\* the same with the path of the deletion list
C17_WitnessDeletionList ==
    /\ orphans_gathered.processed
    /\ orphans_gathered.written
    /\ options.delete_list_output_path
    /\ ~options.remove_list_output_path
    /\ options.remove_nonexistent_users
    /\ Cardinality(orphans_gathered.users) > options.max_missing_users

\* the positions in the order of issue of the commands that remove groups in
\* an accessor organization
AccessorGroupRemovals ==
    {i \in 1..Len(sent) : sent[i].org \in Accessors /\ sent[i].remove # {}}

\* C18: once a remove-from-organization command has been sent, for whichever
\* user, no command that removes groups in an accessor organization is sent
\* any more, for whichever user of the removal list: the loop over the
\* accessors is over and ready_to_remove_from_org is set.
C18_NoRemoveFromOrgBeforeAllGroupRemovals ==
    \A i \in 1..Len(sent) :
        sent[i].remove_from_org =>
            /\ ready_to_remove_from_org
            /\ pc \notin {"clean", "clean_loop", "clean_users"}
            /\ \A j \in AccessorGroupRemovals : j < i

\* a user was removed from the owning organization after the group removals
\* of two users of the removal list had been sent
C18_Witness ==
    \E i \in 1..Len(sent), j, k \in AccessorGroupRemovals :
        /\ sent[i].remove_from_org
        /\ sent[j].user # sent[k].user
        /\ {sent[j].user, sent[k].user} \subseteq remove_user_key_list
        /\ j < i /\ k < i

\* the group removals of clean_dashboard_users for the user that the
\* connectors have not completed yet: sent, and the callback not invoked
PendingGroupRemovals(user_key) ==
    UNION {{<<org, i>> : i \in {k \in DOMAIN queue[org] :
                                    /\ queue[org][k].callback = "remove_groups"
                                    /\ queue[org][k].user = user_key}} : org \in Orgs}

\* C19: the counter of a user of the removal list is the number of the group
\* removals sent for that user whose callback has not been invoked, so it is
\* never negative; and a remove-from-organization command has been sent for a
\* user only with ready_to_remove_from_org set and that counter at zero.
C19_RemoveFromOrgOnlyWhenReadyAndNothingPending ==
    /\ \A user_key \in DOMAIN total_waiting_by_user_key :
            /\ total_waiting_by_user_key[user_key] >= 0
            /\ total_waiting_by_user_key[user_key] =
                    Cardinality(PendingGroupRemovals(user_key))
    /\ \A i \in 1..Len(sent) :
            sent[i].remove_from_org =>
                /\ ready_to_remove_from_org
                /\ total_waiting_by_user_key[sent[i].user] = 0
                /\ PendingGroupRemovals(sent[i].user) = {}

\* execute_actions is flushing an accessor connector, and the callback of a
\* group removal has just sent the user's remove-from-organization command to
\* the owning connector, which had been passed already
C19_Witness ==
    /\ pc = "flush"
    /\ cur >= 2
    /\ sent # <<>>
    /\ sent[Len(sent)].remove_from_org
    /\ queue[OWNING_ORGANIZATION_NAME] # <<>>
    /\ \E j \in AccessorGroupRemovals : sent[j].user = sent[Len(sent)].user
    /\ total_waiting_by_user_key[sent[Len(sent)].user] = 0

\* clean_dashboard_users has taken the turn of its loop for the accessor and
\* the user, and is still in the loop over the removal list for that accessor
\* or was ended there
CleanTurnTaken(org, user_key) ==
    /\ user_key \in DOMAIN total_waiting_by_user_key
    /\ pc \in {"clean_users", "failed"}
    /\ cur <= Len(Connectors)
    /\ Connectors[cur] = org
    /\ user_key \notin todo

\* C20: when clean_dashboard_users has taken the turn of a user of the removal
\* list for an accessor that has mapped groups and knows the user, the run
\* goes on, and if the user's current groups there meet the mapped groups, a
\* command removing exactly those groups from the user has been sent to the
\* accessor.
C20_KnownUserLosesItsMappedGroups ==
    \A org \in Accessors, user_key \in remove_user_key_list :
        (/\ CleanTurnTaken(org, user_key)
         /\ mapped_groups[org] # {}
         /\ user_key \in DOMAIN dashboard_user_by_user_key[org]) =>
            LET groups_to_remove ==
                    filter_target_groups_by_names(mapped_groups[org],
                        normalize_groups(dashboard_user_by_user_key[org][user_key]))
            IN  /\ error = "none"
                /\ groups_to_remove # {} =>
                        \E i \in 1..Len(sent) :
                            /\ sent[i].org = org
                            /\ sent[i].user = user_key
                            /\ sent[i].remove = groups_to_remove

\* clean_dashboard_users is past the turn of its loop for the accessor and the
\* user
CleanTurnPassed(org, user_key) ==
    /\ user_key \in DOMAIN total_waiting_by_user_key
    /\ \/ CleanTurnTaken(org, user_key)
       \/ pc \in {"clean_remove", "drain", "flush", "done"}

\* the commands sent that remove groups from the user in the organization
GroupRemovalsFor(org, user_key) ==
    {i \in 1..Len(sent) : /\ sent[i].org = org
                          /\ sent[i].user = user_key
                          /\ sent[i].remove # {}}

\* C21: past the turn of clean_dashboard_users for a user of the removal list
\* and an accessor that has mapped groups: if the accessor's dashboard users
\* were never loaded, one command was sent that removes all the mapped groups
\* of the accessor from the user; if they were loaded and the user is not
\* among them, no command removing groups from the user was sent there.
C21_UnknownUserGroupRemoval ==
    \A org \in Accessors, user_key \in remove_user_key_list :
        (/\ CleanTurnPassed(org, user_key)
         /\ mapped_groups[org] # {}
         /\ user_key \notin DOMAIN dashboard_user_by_user_key[org]) =>
            IF dashboard_users_loaded[org]
            THEN GroupRemovalsFor(org, user_key) = {}
            ELSE /\ Cardinality(GroupRemovalsFor(org, user_key)) = 1
                 /\ \A i \in GroupRemovalsFor(org, user_key) :
                        /\ sent[i].remove = mapped_groups[org]
                        /\ sent[i].add = {} /\ sent[i].update = {}
                        /\ ~sent[i].create /\ ~sent[i].remove_from_org

\* the run has ended; an accessor that was never loaded got the removal of its
\* mapped groups for a user of the removal list
C21_Witness ==
    /\ pc = "done"
    /\ \E org \in Accessors, user_key \in remove_user_key_list :
        /\ ~dashboard_users_loaded[org]
        /\ mapped_groups[org] # {}
        /\ GroupRemovalsFor(org, user_key) # {}

\* the same for an accessor whose users were loaded, the user not among them:
\* the user was removed from the owning organization with no group removal
C21_WitnessLoaded ==
    /\ pc = "done"
    /\ \E org \in Accessors, user_key \in remove_user_key_list :
        /\ dashboard_users_loaded[org]
        /\ mapped_groups[org] # {}
        /\ user_key \notin DOMAIN dashboard_user_by_user_key[org]
        /\ \E i \in 1..Len(sent) : sent[i].remove_from_org /\ sent[i].user = user_key

\* C22: with group management, once the diff of an organization has taken a
\* user of a managed type that matches a selected directory user, the groups
\* it asked to add to the user hold the desired groups the user is not in, and
\* the groups it asked to remove are the mapped groups the user is in and that
\* are not desired, groups being compared by name.
C22_MatchedUserGroupDelta ==
    \A org \in Orgs, user_key \in filtered_directory_user_by_user_key :
        (/\ will_manage_groups
         /\ user_key \in DOMAIN dashboard_user_by_user_key[org]
         /\ KeyType(user_key) \in managed_identity_types) =>
            LET current_groups == normalize_groups(dashboard_user_by_user_key[org][user_key])
                desired_groups == Get(desired_groups_by_user_key[org], user_key)
            IN  /\ (desired_groups \ current_groups)
                        \subseteq Get(groups_added_by_user_key[org], user_key)
                /\ Get(groups_removed_by_user_key[org], user_key) =
                        (current_groups \ desired_groups) \cap mapped_groups[org]

\* the orphans of the owning organization that pass the username filter
SelectedOwningOrphans ==
    {user_key \in orphaned_dashboard_user_by_user_key[OWNING_ORGANIZATION_NAME] :
        user_key \notin options.username_filter_rejects}

\* C23: the orphans process_orphaned_dashboard_users gathers are, for removal,
\* the orphans of the owning organization that pass the username filter and
\* are of a managed identity type and, for deletion, the orphans of the owning
\* organization of whichever type that pass the username filter.
C23_GatheredOrphans ==
    orphans_gathered.processed =>
        orphans_gathered.users =
            IF need_to_process_remove_users
            THEN {user_key \in SelectedOwningOrphans :
                        KeyType(user_key) \in managed_identity_types}
            ELSE SelectedOwningOrphans

\* the group type that goes with a designation
GroupTypeOf(designation) ==
    IF designation = DESIGNATION_GROUP THEN GroupTypes.usergroup ELSE GroupTypes.product

\* the calls put the groups into the command split by designation: every call
\* is of one of the two group types and holds groups of these only, and each
\* group is in the call of the type of its designation and in no other
SplitByDesignation(org, groups, calls) ==
    /\ \A c \in calls : /\ c[2] \in {GroupTypes.usergroup, GroupTypes.product}
                         /\ c[1] \subseteq groups
    /\ \A g \in groups, c \in calls : g \in c[1] <=> c[2] = GroupTypeOf(Designation(org, g))
    /\ \A g \in groups : \E c \in calls : g \in c[1]

\* C24: in every command sent, the groups to add and the groups to remove are
\* split by designation into a sub-command of the user-group type and one of
\* the product type, each group in the one of its designation.
C24_GroupCommandsSplitByDesignation ==
    \A i \in 1..Len(sent) :
        /\ SplitByDesignation(sent[i].org, sent[i].add, sent[i].add_calls)
        /\ SplitByDesignation(sent[i].org, sent[i].remove, sent[i].remove_calls)

C26_UnmanagedUserNotRecorded ==
    \A org \in Orgs, user_key \in UserKeys :
        KeyType(user_key) \notin managed_identity_types =>
            /\ user_key \notin DOMAIN dashboard_user_by_user_key[org]
            /\ user_key \notin orphaned_dashboard_user_by_user_key[org]
            /\ CommandsFor(org, user_key) = {}

\* C26: a user of an unmanaged identity type that a connector yields is
\* recorded among the dashboard users of the organization and taken out of
\* the diff's copy of the desired map, and then skipped: it is not marked as an
\* orphan and gets no command, unless the removal list names it, which
\* clean_dashboard_users serves whatever the type.
C26_UnmanagedUserRecordedAndSkipped ==
    \A org \in Orgs, user_key \in UserKeys :
        KeyType(user_key) \notin managed_identity_types =>
            /\ user_key \notin orphaned_dashboard_user_by_user_key[org]
            /\ user_key \notin remove_user_key_list => CommandsFor(org, user_key) = {}
            /\ (/\ user_key \in DOMAIN dashboard_user_by_user_key[org]
                /\ pc \in {"owning_diff", "accessor_diff"}
                /\ Connectors[cur] = org) => user_key \notin DOMAIN user_to_group_map

\* the owning connector has yielded a user of an unmanaged type that matches
\* a selected directory user; the run has ended and has not created the user
C26_Witness ==
    /\ pc = "done"
    /\ \E user_key \in filtered_directory_user_by_user_key :
        /\ KeyType(user_key) \notin managed_identity_types
        /\ user_key \in DOMAIN dashboard_user_by_user_key[OWNING_ORGANIZATION_NAME]
        /\ Creates(user_key) = {}

\* C27: the users in adding_dashboard_user_key are those whose create command
\* has been sent and whose callback has not been invoked, whether the create
\* succeeds or fails; when run() returns, the set is empty.
C27_AddingWhileCreateInFlight ==
    /\ \A user_key \in UserKeys :
            user_key \in adding_dashboard_user_key <=> InFlight(user_key)
    /\ adding_dashboard_user_key \subseteq {sent[i].user : i \in {k \in 1..Len(sent) : sent[k].create}}
    /\ pc = "done" => adding_dashboard_user_key = {}

\* the create command of a user has completed with a failure and no create
\* is in flight
C27_Witness ==
    /\ failed_create_user_keys # {}
    /\ \A user_key \in failed_create_user_keys : Creates(user_key) # {}
    /\ adding_dashboard_user_key = {}
    /\ pc = "done"

\* the create command of the user has completed with success
CreatedWithSuccess(user_key) ==
    /\ Creates(user_key) # {}
    /\ ~InFlight(user_key)
    /\ user_key \notin failed_create_user_keys

C29_CreateCountry ==
    \A i \in 1..Len(sent) :
        sent[i].create =>
            LET user_key == sent[i].user IN
            /\ KeyType(user_key) \in managed_identity_types
            /\ IF user_key \notin blank_country_user_keys
               THEN sent[i].country = "directory"
               ELSE IF options.default_country_code
               THEN sent[i].country = "default"
               ELSE /\ KeyType(user_key) = ENTERPRISE_IDENTITY_TYPE
                    /\ sent[i].country = "UD"

\* an enterprise user with a blank country was created with UD, and the
\* creation loop is past a federated user with a blank country, not created
C29_Witness ==
    /\ pc = "done"
    /\ ~options.default_country_code
    /\ \E i \in 1..Len(sent) :
            /\ sent[i].create
            /\ sent[i].country = "UD"
            /\ sent[i].user \in blank_country_user_keys
    /\ \E user_key \in blank_country_user_keys :
            /\ KeyType(user_key) = FEDERATED_IDENTITY_TYPE
            /\ Creates(user_key) = {}

(***************************************************************************)
(* Properties of the user-key functions.                                   *)
(***************************************************************************)
\* the username get_user_key puts into the key
KeyUsername ==
    IF normalize_string(key_args.username) # <<>>
    THEN normalize_string(key_args.username)
    ELSE normalize_string(key_args.email)

\* C9: whenever get_user_key returned a key, parse_user_key of the key is
\* three components: the identity type, the normalized username (the
\* normalized email if the username is empty), and the normalized domain, or
\* the empty string if that username holds an '@'.
C9_ParseInvertsGetUserKey ==
    key_pc = "parsed" =>
        parsed_user_key =
            <<parse_identity_type(key_args.id_type), KeyUsername,
              IF "@" \in Range(KeyUsername) THEN <<>>
              ELSE normalize_string(key_args.domain)>>

\* C30: a directory user whose key could not be derived (get_user_key returned
\* None) is never tracked: neither the directory table, nor the selected users,
\* nor the owning organization's desired map holds the missing key.
C30_NoUserTrackedUnderMissingKey ==
    /\ <<>> \notin DOMAIN directory_user_by_user_key
    /\ <<>> \notin filtered_directory_user_by_user_key
    /\ <<>> \notin DOMAIN desired_groups_by_user_key[OWNING_ORGANIZATION_NAME]

\* C31 as the specification has it: a selected directory user whose target
\* groups hold a qualified name that the catalog does not know is registered
\* as desired in no organization.
C31_UserWithUnknownTargetGroupSkipped ==
    \A user_key \in filtered_directory_user_by_user_key :
        UnknownTargetGroup \in directory_user_by_user_key[user_key].target_groups =>
            \A org \in Orgs : user_key \notin DOMAIN desired_groups_by_user_key[org]

\* C31, amended: a qualified name that the catalog does not know is ignored,
\* not the user.  Every selected directory user is registered as desired in
\* the owning organization, and in each organization with exactly the groups
\* of that organization that its known target groups name, whether or not an
\* unknown name stands among its target groups.
C31_UnknownTargetGroupIgnored ==
    \A user_key \in filtered_directory_user_by_user_key :
        /\ user_key \in DOMAIN desired_groups_by_user_key[OWNING_ORGANIZATION_NAME]
        /\ \A org \in Orgs :
            LET named == {gq[1] : gq \in
                            {x \in directory_user_by_user_key[user_key].target_groups
                                        \cap index_map : x[2] = org}}
            IN  /\ Get(desired_groups_by_user_key[org], user_key) = named
                /\ (org # OWNING_ORGANIZATION_NAME /\ named # {}) =>
                        user_key \in DOMAIN desired_groups_by_user_key[org]

\* C31, its case: a user with an unknown name and a known accessor group
\* among its target groups was created, and the accessor was sent its group
C31_Witness ==
    \E user_key \in filtered_directory_user_by_user_key :
        /\ UnknownTargetGroup \in directory_user_by_user_key[user_key].target_groups
        /\ \E i \in 1..Len(sent) : sent[i].user = user_key /\ sent[i].create
        /\ \E i \in 1..Len(sent) :
                /\ sent[i].user = user_key
                /\ sent[i].org \in Accessors
                /\ sent[i].add # {}

\* C32 as the specification has it: a create command is issued only after the
\* diff of the owning organization and of every accessor organization with
\* mapped groups has ended.
C32_CreatesAfterEveryDiff ==
    (\E i \in 1..Len(sent) : sent[i].create) =>
        \A org \in Orgs :
            (org = OWNING_ORGANIZATION_NAME \/ mapped_groups[org] # {}) =>
                dashboard_users_loaded[org]

\* an accessor's diff has begun: its connector yielded a user or ended its stream
AccessorDiffBegun ==
    \E org \in Accessors :
        dashboard_users_loaded[org] \/ DOMAIN dashboard_user_by_user_key[org] # {}

\* C32, amended: the create commands are issued between the diff of the owning
\* organization and the diffs of the accessor organizations.  A create command
\* is issued only after the owning diff has ended; while the creation loop
\* runs no accessor's diff has begun; and once an accessor's diff has begun
\* every desired user of the owning organization that its diff did not meet,
\* of a managed type and with a country, has its create command.
C32_CreatesBetweenOwningAndAccessorDiffs ==
    /\ (\E i \in 1..Len(sent) : sent[i].create) =>
            dashboard_users_loaded[OWNING_ORGANIZATION_NAME]
    /\ pc = "create" => ~AccessorDiffBegun
    /\ AccessorDiffBegun =>
        \A user_key \in DOMAIN desired_groups_by_user_key[OWNING_ORGANIZATION_NAME] :
            (/\ dashboard_users_loaded[OWNING_ORGANIZATION_NAME]
             /\ user_key \notin DOMAIN dashboard_user_by_user_key[OWNING_ORGANIZATION_NAME]
             /\ KeyType(user_key) \in managed_identity_types
             /\ HasCountry(user_key)) => Creates(user_key) # {}

\* C32, its case: a user was created and after that the connector of an
\* accessor with mapped groups yielded a user
C32_Witness ==
    /\ \E i \in 1..Len(sent) : sent[i].create
    /\ \E org \in Accessors :
        mapped_groups[org] # {} /\ DOMAIN dashboard_user_by_user_key[org] # {}

\* C33 as the specification has it: a user whose key is in the removal list is
\* not selected, gets no create command and no command that adds a group, and
\* a target record with its key is marked as an orphan.
C33_RemovalListUserIsOrphan ==
    \A user_key \in remove_user_key_list :
        /\ user_key \notin filtered_directory_user_by_user_key
        /\ \A i \in 1..Len(sent) :
                sent[i].user = user_key => ~sent[i].create /\ sent[i].add = {}
        /\ \A org \in Orgs :
                user_key \in DOMAIN dashboard_user_by_user_key[org] =>
                    user_key \in orphaned_dashboard_user_by_user_key[org]

\* C33, amended: a user whose key is in the removal list is not selected and
\* gets no create command and no command that adds a group; a target record
\* with its key is marked as an orphan if its identity type is managed, and is
\* not if its type is not.
C33_RemovalListUserNeverSelected ==
    \A user_key \in remove_user_key_list :
        /\ user_key \notin filtered_directory_user_by_user_key
        /\ \A org \in Orgs : user_key \notin DOMAIN desired_groups_by_user_key[org]
        /\ \A i \in 1..Len(sent) :
                sent[i].user = user_key => ~sent[i].create /\ sent[i].add = {}
        /\ \A org \in Orgs :
                user_key \in DOMAIN dashboard_user_by_user_key[org] =>
                    (user_key \in orphaned_dashboard_user_by_user_key[org]
                        <=> KeyType(user_key) \in managed_identity_types)

\* C33, its case: the directory loaded a user of the input removal list, in
\* the groups of the filter; the run has ended and has not selected the user
C33_Witness ==
    /\ pc = "done"
    /\ \E user_key \in options.remove_user_key_list :
        /\ user_key \in DOMAIN directory_user_by_user_key
        /\ directory_user_by_user_key[user_key].in_groups
        /\ is_selected_user_key(user_key)
        /\ user_key \notin filtered_directory_user_by_user_key

\* C34: with connectors that complete every command and invoke each callback
\* once, execute_actions ends: a run that has reached execute_actions reaches
\* its end, whatever commands the callbacks send meanwhile.
C34_ExecuteActionsTerminates == (pc \in {"drain", "flush"}) ~> (pc = "done")

\* C34, its case: execute_actions has ended after more than one pass with work,
\* the callback of a group removal having sent the owning connector, already
\* passed, the command that removes the user from the organization
C34_Witness ==
    /\ pc = "done"
    /\ drain_passes >= 2
    /\ \E i, j \in 1..Len(sent) :
        /\ i < j
        /\ sent[i].remove # {}
        /\ sent[j].remove_from_org
        /\ sent[j].user = sent[i].user

\* the owning organization knows the user, or its users were never loaded
RemovableFromOrg(user_key) ==
    \/ ~dashboard_users_loaded[OWNING_ORGANIZATION_NAME]
    \/ user_key \in DOMAIN dashboard_user_by_user_key[OWNING_ORGANIZATION_NAME]

\* C35: with connectors that complete every group removal, once
\* clean_dashboard_users is called every user of the removal list that the
\* owning organization knows, or whose owning table was never loaded, is
\* eventually sent the command that removes it from the organization.
C35_RemovalListUserEventuallyRemoved ==
    \A user_key \in UserKeys :
        (pc = "clean" /\ user_key \in remove_user_key_list /\ RemovableFromOrg(user_key))
            ~> (RemovesFromOrg(user_key) # {})

\* C36: at most one command that removes a user from the organization is sent
\* for a user in a run, whenever the connectors complete the group removals:
\* inside send_commands, before ready_to_remove_from_org is set, or in a flush
\* of execute_actions.
C36_AtMostOneRemoveFromOrg ==
    \A user_key \in UserKeys : Cardinality(RemovesFromOrg(user_key)) <= 1

\* C36, its case: the run has ended; two accessors were sent a group removal
\* for a user, both completed, and the user was removed from the organization
C36_Witness ==
    /\ pc = "done"
    /\ \E user_key \in remove_user_key_list :
        /\ \A org \in Accessors : GroupRemovalsFor(org, user_key) # {}
        /\ RemovesFromOrg(user_key) # {}

\* C37: every group that a command sent to an organization's connector
\* removes is a mapped group of that organization, whichever of the diff, the
\* fan-out after a create and clean_dashboard_users sent the command.
C37_RemovedGroupsAreMapped ==
    \A i \in 1..Len(sent) : sent[i].remove \subseteq mapped_groups[sent[i].org]

\* C37, its case: a connector yielded a user that is in a mapped group and in
\* a group that is not mapped, and was sent a command removing groups from it
C37_Witness ==
    \E i \in 1..Len(sent) :
        /\ sent[i].remove # {}
        /\ sent[i].user \in DOMAIN dashboard_user_by_user_key[sent[i].org]
        /\ ~(normalize_groups(dashboard_user_by_user_key[sent[i].org][sent[i].user])
                \subseteq mapped_groups[sent[i].org])

\* the commands sent to an organization for a user that the diff of the
\* organization has matched with a selected directory user
MatchedCommands ==
    {i \in 1..Len(sent) :
        /\ sent[i].user \in filtered_directory_user_by_user_key
        /\ sent[i].user \in DOMAIN dashboard_user_by_user_key[sent[i].org]}

CreationSkipped(user_key) ==
    /\ user_key \in filtered_directory_user_by_user_key
    /\ dashboard_users_loaded[OWNING_ORGANIZATION_NAME]
    /\ user_key \notin DOMAIN dashboard_user_by_user_key[OWNING_ORGANIZATION_NAME]
    /\ ~(pc = "create" /\ user_key \in todo)
    /\ \/ KeyType(user_key) \notin managed_identity_types
       \/ /\ user_key \in blank_country_user_keys
          /\ ~options.default_country_code
          /\ KeyType(user_key) # ENTERPRISE_IDENTITY_TYPE

\* C39: a selected user that the owning organization did not yield and whose
\* creation was skipped is sent no command adding it to a group of an
\* accessor organization.
C39_NoAccessorAddAfterSkippedCreate ==
    \A user_key \in UserKeys :
        CreationSkipped(user_key) =>
            \A i \in 1..Len(sent) :
                (sent[i].user = user_key /\ sent[i].org # OWNING_ORGANIZATION_NAME) =>
                    sent[i].add = {}

\* C40: no command removes from the organization a user that is not in the
\* table of the owning organization once that table is loaded; and a run that
\* never loaded the table, ended, has sent the command for every key of the
\* removal list.
C40_RemoveFromOrgForKnownOrUnloaded ==
    /\ dashboard_users_loaded[OWNING_ORGANIZATION_NAME] =>
            \A user_key \in UserKeys \ DOMAIN dashboard_user_by_user_key[OWNING_ORGANIZATION_NAME] :
                RemovesFromOrg(user_key) = {}
    /\ (pc = "done" /\ ~dashboard_users_loaded[OWNING_ORGANIZATION_NAME]) =>
            \A user_key \in remove_user_key_list : RemovesFromOrg(user_key) # {}

\* C40, its case: a run with no directory connector has ended; a key of the
\* removal list was sent a removal of groups in an accessor organization, on
\* which the removal from the organization waited, and another key is removed
\* too
C40_Witness ==
    /\ pc = "done"
    /\ ~dashboard_users_loaded[OWNING_ORGANIZATION_NAME]
    /\ Cardinality(remove_user_key_list) = 2
    /\ \E user_key \in remove_user_key_list :
        /\ \E org \in Accessors : GroupRemovalsFor(org, user_key) # {}
        /\ \E i \in RemovesFromOrg(user_key) :
                \E org \in Accessors : \E j \in GroupRemovalsFor(org, user_key) : j < i

====
